---- MODULE Spec2Model ----
(***************************************************************************)
(* Video Sync: session / connection lifecycle and playback relay.          *)
(*                                                                         *)
(* Three execution contexts per device, as in the sources:                 *)
(*   - Connection Manager   (src/offscreen/offscreen.js)                   *)
(*   - Session Coordinator  (src/unnamed/part_000, the service worker)     *)
(*   - Sync Agent           (src/content/content.js)                       *)
(* The transport library (PeerJS: signalling server, Peer and              *)
(* DataConnection objects) is the environment: its events are the          *)
(* actions that run the callbacks the Connection Manager registers.        *)
(*                                                                         *)
(* Library behaviour the callbacks rely on (PeerJS 1.x, eventemitter3):    *)
(*   - a listener added while an event is being emitted is not called for  *)
(*     that emission, and a DataConnection emits 'open' once;              *)
(*   - peer.destroy() is synchronous: it emits 'disconnected' (unless the  *)
(*     peer is already disconnected), closes every connection of the peer  *)
(*     (an open one emits 'close'), then emits 'close';                    *)
(*   - a fatal error (unavailable-id, network, server-error) of a peer     *)
(*     that never had an id destroys it after emitting 'error'; of a peer  *)
(*     that had one, disconnects it;                                       *)
(*   - 'peer-unavailable' is emitted on the Peer, not on the connection,   *)
(*     and is not fatal;                                                   *)
(*   - a closed connection emits no further 'open' or 'data'.              *)
(***************************************************************************)
EXTENDS Integers, Sequences, FiniteSets, Bags, TLC

(***************************************************************************)
(* Bounds of the model.                                                    *)
(***************************************************************************)
NumDev == 3
\* Spec: requests and environment faults per behaviour.
MaxOps == 3
MaxFaults == 1
\* SpecRelay: one Host, the other devices join.
RelayOps == 3
RelayFaults == 1
\* SpecCreate: devices that create sessions.
CreateOps == 3
CreateFaults == 2
\* SpecCollide: notifications and timers outstanding when a collision arrives.
MaxPending == 2
CollideOps == 3
MaxStalls == 3
MaxEcho == 3
CoordOps == 2
CoordFaults == 1
MaxTicks == 1
MaxRestarts == 1
\* SpecSync: local playback events, one Host and one Guest.
SyncOps == 2
MaxLocal == 1

Dev == 1 .. NumDev
MaxJoins == 2
LinkId == Dev \X (1 .. MaxJoins)

(***************************************************************************)
(* Session codes: sequences of six characters (offscreen.js:10-17).        *)
(***************************************************************************)
Alphabet == {"A","B","C","D","E","F","G","H","J","K","L","M","N","P","Q","R",
             "S","T","U","V","W","X","Y","Z","2","3","4","5","6","7","8","9"}

\* The codes generateSessionCode draws in the model: a sample of Alphabet^6.
GenCodes == { <<"K","7","P","Q","4","R">>, <<"A","B","C","D","E","F">> }

LowerOf == [c \in Alphabet |->
              CASE c = "A" -> "a" [] c = "B" -> "b" [] c = "C" -> "c" [] c = "D" -> "d"
                [] c = "E" -> "e" [] c = "F" -> "f" [] c = "G" -> "g" [] c = "H" -> "h"
                [] c = "J" -> "j" [] c = "K" -> "k" [] c = "L" -> "l" [] c = "M" -> "m"
                [] c = "N" -> "n" [] c = "P" -> "p" [] c = "Q" -> "q" [] c = "R" -> "r"
                [] c = "S" -> "s" [] c = "T" -> "t" [] c = "U" -> "u" [] c = "V" -> "v"
                [] c = "W" -> "w" [] c = "X" -> "x" [] c = "Y" -> "y" [] c = "Z" -> "z"
                [] OTHER -> c]

\* A code taken as it was typed.
KeepCase(code) == code

\* String.prototype.toUpperCase on one character.
UpperChar(ch) ==
  IF \E c \in Alphabet : LowerOf[c] = ch /\ c # ch
    THEN CHOOSE c \in Alphabet : LowerOf[c] = ch
    ELSE ch

toUpperCase(code) == [i \in 1 .. Len(code) |-> UpperChar(code[i])]

\* A code no Host of the model ever holds.
UnclaimedCode == <<"Z","Z","Z","9","9","9">>
\* What the user types into joinSession.
TypedCode == <<"k","7","p","q","4","r">>
MixedCode == <<"K","7","p","Q","4","r">>
JoinCodes == { TypedCode, UnclaimedCode }
OneCode == { <<"K","7","P","Q","4","R">> }
HostCode == CHOOSE c \in OneCode : TRUE


\* Peer identities.  A Host's is derived from the code; a Guest's is the
\* anonymous identity the signalling server assigns to that Peer object.
NoId == [prefix |-> "", code |-> <<>>, dev |-> 0, slot |-> 0]
sessionCodeToPeerId(code) ==
  [prefix |-> "videosync-", code |-> toUpperCase(code), dev |-> 0, slot |-> 0]
AnonId(l) == [prefix |-> "anon", code |-> <<>>, dev |-> l[1], slot |-> l[2]]
HostIds == {sessionCodeToPeerId(c) : c \in GenCodes}

(***************************************************************************)
(* Messages.                                                               *)
(***************************************************************************)
NoEvent == [type |-> "none", time |-> 0, playing |-> FALSE, speed |-> 0, tag |-> <<0, 0, 0, 0>>]
\* tag is a ghost identity: <<device, link slot, responder, local number>>;
\* in a local playback event the second place tells whether the device had
\* an open link when its listener ran.
SyncRequest(l) ==
  [type |-> "sync-request", time |-> 0, playing |-> FALSE, speed |-> 0, tag |-> <<l[1], l[2], 0, 0>>]

Notify(action, count, status, data, from) ==
  [action |-> action, count |-> count, status |-> status, data |-> data, from |-> from]
PeerJoined(id, count) == Notify("peer-joined", count, "", NoEvent, id)
PeerLeft(id, count) == Notify("peer-left", count, "", NoEvent, id)
PeerData(data, from) == Notify("peer-data", 0, "", data, from)
ConnectionStatus(status) == Notify("connection-status", 0, status, NoEvent, NoId)

NoCode == <<>>
NoResult == [op |-> "none", success |-> FALSE, code |-> NoCode, isHost |-> FALSE, error |-> ""]
Success(op, code, host) == [op |-> op, success |-> TRUE, code |-> code, isHost |-> host, error |-> ""]
Failure(op, msg) == [op |-> op, success |-> FALSE, code |-> NoCode, isHost |-> FALSE, error |-> msg]

\* Error messages of initPeer and joinSession (offscreen.js:45, 64-74, 176, 190).
ErrInUse == "Session code already in use"
ErrNotFound == "Session not found - check the code"
ErrNetwork == "Network error - check your connection"
ErrServer == "Server error - try again"
ErrInitTimeout == "Connection timeout - could not reach signaling server"
ErrJoinTimeout == "Could not connect to session - host may be offline"
ErrJoinFailed == "Failed to connect to session"

ErrorMessage(type) ==
  CASE type = "unavailable-id" -> ErrInUse
    [] type = "peer-unavailable" -> ErrNotFound
    [] type = "network" -> ErrNetwork
    [] type = "server-error" -> ErrServer
    [] OTHER -> "Connection failed"

(***************************************************************************)
(* State.                                                                  *)
(***************************************************************************)
VARIABLES
  \* Connection Manager (offscreen.js:4-7)
  peer,          \* [Dev -> [st, id, hadId]]: the Peer object `peer` refers to
  connections,   \* [Dev -> SUBSET PeerId]: keys of the Map
  sessionCode,   \* [Dev -> code or NoCode]
  isHost,        \* [Dev -> BOOLEAN]
  cmOp,          \* [Dev -> the pending promise of createSession / joinSession]
  \* Transport
  registry,      \* [HostIds -> 0 .. NumDev]: who holds an identity at the server
  links,         \* [LinkId -> link record]: the connection a Guest's Peer opened
  reconnTimers,  \* [Dev -> Nat]: pending 1 s reconnect timers
  \* Session Coordinator (part_000:5-7)
  bgSessionCode, bgIsHost, peerCount, badge, popupEnabled,
  pend,          \* [Dev -> the UI request being handled]
  uiResult,      \* [Dev -> the last result reported to the UI surface]
  \* Messages between the contexts of a device
  inbox,         \* [Dev -> Seq(notification)]: Connection Manager -> Coordinator
  resp,          \* [Dev -> result]: the response to the outstanding request
  bcast,         \* [Dev -> Seq(event)]: Sync Agent -> Coordinator -> 'broadcast'
  \* Sync Agent (content.js:7-9)
  video, ignoreEvents, ignTimers, debounceTimers,
  isBuffering,   \* [Dev -> BOOLEAN]: content.js:10
  stalled,       \* [Dev -> BOOLEAN]: the element waits for data
  \* Budgets and history
  nops, faults, nlocal,
  lim,           \* what the users and the environment do in this specification
  rcvd,          \* [Dev -> bag of events the data handler received]
  lastCall,      \* [Dev -> the Connection Manager operation called last]
  worker         \* [Dev -> alarm ticks, pings sent and restarts of the Coordinator]

cmVars == <<peer, connections, sessionCode, isHost, cmOp>>
netVars == <<registry, links, reconnTimers>>
bgVars == <<bgSessionCode, bgIsHost, peerCount, badge, popupEnabled>>
uiVars == <<pend, uiResult>>
msgVars == <<inbox, resp, bcast>>
bufVars == <<isBuffering, stalled>>
agentVars == <<video, ignoreEvents, ignTimers, debounceTimers, bufVars>>
histVars == <<rcvd, lastCall, worker>>
budgetVars == <<nops, faults, nlocal, lim>>
vars == <<cmVars, netVars, bgVars, uiVars, msgVars, agentVars, histVars, budgetVars>>

NullPeer == [st |-> "null", id |-> NoId, hadId |-> FALSE]
\* sentReq counts the sync-requests sent on the link (history).
NoLink == [target |-> NoId, host |-> 0, gst |-> "none", hst |-> "none",
           expired |-> FALSE, dropped |-> FALSE, g2h |-> <<>>, h2g |-> <<>>, sentReq |-> 0]

NoVideo == [bound |-> FALSE, time |-> 0, playing |-> FALSE, speed |-> 10]
\* Playback positions are in tenths of a second, speeds in tenths.
InitVideo == [d \in Dev |->
  CASE d = 1 -> [bound |-> TRUE, time |-> 423, playing |-> TRUE, speed |-> 12]
    [] d = 2 -> [bound |-> TRUE, time |-> 0, playing |-> FALSE, speed |-> 10]
    [] OTHER -> NoVideo]

Kinds == {"play", "pause", "seek", "rate"}
\* Keys of debounceTimers (content.js:97-101, 143).
TimerKeys == Kinds \cup {"buffer"}

Start(limits, videos) ==
  /\ lim = limits
  /\ video = videos
  /\ peer = [d \in Dev |-> NullPeer]
  /\ connections = [d \in Dev |-> {}]
  /\ sessionCode = [d \in Dev |-> NoCode]
  /\ isHost = [d \in Dev |-> FALSE]
  /\ cmOp = [d \in Dev |-> "none"]
  /\ registry = [i \in HostIds |-> 0]
  /\ links = [l \in LinkId |-> NoLink]
  /\ reconnTimers = [d \in Dev |-> 0]
  /\ bgSessionCode = [d \in Dev |-> NoCode]
  /\ bgIsHost = [d \in Dev |-> FALSE]
  /\ peerCount = [d \in Dev |-> 0]
  /\ badge = [d \in Dev |-> ""]
  /\ popupEnabled = [d \in Dev |-> FALSE]
  /\ pend = [d \in Dev |-> "none"]
  /\ uiResult = [d \in Dev |-> NoResult]
  /\ inbox = [d \in Dev |-> <<>>]
  /\ resp = [d \in Dev |-> NoResult]
  /\ bcast = [d \in Dev |-> <<>>]
  /\ ignoreEvents = [d \in Dev |-> FALSE]
  /\ ignTimers = [d \in Dev |-> 0]
  /\ debounceTimers = [d \in Dev |-> [k \in TimerKeys |-> NoEvent]]
  /\ isBuffering = [d \in Dev |-> FALSE]
  /\ stalled = [d \in Dev |-> FALSE]
  /\ nops = 0
  /\ faults = 0
  /\ nlocal = 0
  /\ rcvd = [d \in Dev |-> EmptyBag]
  /\ lastCall = [d \in Dev |-> "none"]
  /\ worker = [d \in Dev |-> [ticks |-> 0, pings |-> 0, restarts |-> 0]]

(***************************************************************************)
(* Helpers over the transport state.                                       *)
(***************************************************************************)
Append2(q, msgs) == q \o msgs

\* All enumerations of a finite set as a sequence (iteration orders).
Orders(S) == {s \in [1 .. Cardinality(S) -> S] : \A i, j \in 1 .. Cardinality(S) : s[i] = s[j] => i = j}

\* peer !== null, and the Peer object's flags (PeerJS getters).
PeerNotNull(d) == peer[d].st # "null"
PeerDestroyed(d) == peer[d].st = "destroyed"
PeerDisconnectedFlag(d) == peer[d].st \in {"disc", "destroyed"}
PeerAlive(d) == peer[d].st \in {"init", "open", "disc"}

\* The connections of device d's Peer that are open, as link ids.
OpenHostEnds(d) == {l \in LinkId : links[l].host = d /\ links[l].hst = "open"}
OpenGuestEnds(d) == {l \in LinkId : l[1] = d /\ links[l].gst = "open"}
OpenEnds(d) == OpenHostEnds(d) \cup OpenGuestEnds(d)

\* conn.peer as device d sees the connection of link l.
ConnKey(d, l) == IF l[1] = d THEN links[l].target ELSE AnonId(l)

\* The link whose connection device d stores (or would store) under key id.
LinkOfKey(d, id) ==
  IF id.prefix = "anon"
    THEN <<id.dev, id.slot>>
    ELSE IF \E l \in LinkId : l[1] = d /\ links[l].target = id /\ links[l].gst \in {"connecting", "open"}
           THEN CHOOSE l \in LinkId : l[1] = d /\ links[l].target = id /\ links[l].gst \in {"connecting", "open"}
           ELSE <<d, 1>>

\* c.open for the connection device d stores under key id.
ConnOpen(d, id) ==
  LET l == LinkOfKey(d, id) IN
    IF id.prefix = "anon"
      THEN links[l].host = d /\ links[l].hst = "open"
      ELSE links[l].target = id /\ links[l].gst = "open"

\* c.send(data) on each connection of device d whose key is in ids.
SendAll(lk, d, ids, data) ==
  [l \in LinkId |->
     IF AnonId(l) \in ids /\ lk[l].host = d /\ lk[l].hst = "open"
       THEN [lk[l] EXCEPT !.h2g = Append(@, data)]
     ELSE IF l[1] = d /\ lk[l].target \in ids /\ lk[l].gst = "open"
       THEN [lk[l] EXCEPT !.g2h = Append(@, data)]
     ELSE lk[l]]

\* Device d's ends of link l closed (DataConnection.close()).
CloseEnds(d, l) ==
  LET r == links[l]
      g == IF l[1] = d /\ r.gst \in {"connecting", "open"}
             THEN [r EXCEPT !.gst = "closed", !.h2g = <<>>] ELSE r
      h == IF g.host = d /\ g.hst \in {"pending", "open"}
             THEN [g EXCEPT !.hst = "closed", !.g2h = <<>>] ELSE g
  IN IF h.gst = "closed" /\ h.hst \in {"closed", "none"}
       THEN [h EXCEPT !.g2h = <<>>, !.h2g = <<>>] ELSE h

(***************************************************************************)
(* setupConnection (offscreen.js:96-129): the handlers as operators.       *)
(***************************************************************************)
\* conn.on('open')
OnConnOpen(conns, key) ==
  [conns |-> conns \cup {key}, msg |-> PeerJoined(key, Cardinality(conns \cup {key}) + 1)]

\* conn.on('close')
OnConnClose(conns, key) ==
  [conns |-> conns \ {key}, msg |-> PeerLeft(key, Cardinality(conns \ {key}) + 1)]

\* conn.on('error')
OnConnError(conns, key) == conns \ {key}

\* The relay loop of conn.on('data'): the keys the event is sent to.
\* The relay without its test of the origin (112).
RelayAllTargets(d, from) ==
  IF isHost[d] /\ Cardinality(connections[d]) > 1
    THEN {id \in connections[d] : ConnOpen(d, id)}
    ELSE {}
RelayTargets(d, from) ==
  IF isHost[d] /\ Cardinality(connections[d]) > 1
    THEN {id \in connections[d] : id # from /\ ConnOpen(d, id)}
    ELSE {}

\* 'close' handlers run one after the other over the keys of a sequence.
RECURSIVE CloseAll(_, _)
CloseAll(conns, keys) ==
  IF keys = <<>>
    THEN [conns |-> conns, msgs |-> <<>>]
    ELSE LET one == OnConnClose(conns, Head(keys))
             rest == CloseAll(one.conns, Tail(keys))
         IN [conns |-> rest.conns, msgs |-> <<one.msg>> \o rest.msgs]

(***************************************************************************)
(* peer.destroy() on device d's Peer, with the callbacks initPeer          *)
(* (offscreen.js:77-92) and setupConnection (119-123) registered on it.    *)
(* ord: the order in which the Peer closes its open connections.           *)
(***************************************************************************)
\* A destroy that leaves the Peer's connections as they are.
KeepConnections(d) == links
\* The Peer closes each of its connections, open or not.
CloseConnections(d) == [l \in LinkId |-> CloseEnds(d, l)]

Destroy(d, ord) ==
  LET alive == PeerAlive(d)
      emitsDisc == alive /\ peer[d].st # "disc"
      keys == [i \in 1 .. Len(ord) |-> ConnKey(d, ord[i])]
      ch == CloseAll(connections[d], keys)
  IN [msgs |-> IF alive
                 THEN (IF emitsDisc THEN <<ConnectionStatus("reconnecting")>> ELSE <<>>)
                      \o ch.msgs \o <<ConnectionStatus("closed")>>
                 ELSE <<>>,
      conns |-> IF alive THEN ch.conns ELSE connections[d],
      timers |-> reconnTimers[d] + (IF emitsDisc THEN 1 ELSE 0),
      links |-> IF alive THEN CloseConnections(d) ELSE links,
      registry |-> [i \in HostIds |-> IF registry[i] = d THEN 0 ELSE registry[i]]]

\* getStatus (offscreen.js:212-219)
getStatus(d) ==
  [connected |-> PeerNotNull(d) /\ ~PeerDisconnectedFlag(d) /\ ~PeerDestroyed(d),
   sessionCode |-> sessionCode[d],
   isHost |-> isHost[d],
   peerCount |-> Cardinality(connections[d]) + (IF PeerNotNull(d) /\ ~PeerDestroyed(d) THEN 1 ELSE 0)]

(***************************************************************************)
(* Connection Manager operations.  A UI request is forwarded by the        *)
(* Coordinator without a state change of its own (part_000:125-127,        *)
(* 147-149, 169-171), so the request and the Connection Manager's handler  *)
(* are one step; the response travels back in resp.                        *)
(***************************************************************************)
\* generateSessionCode (offscreen.js:10-17): the codes it may return.
generateSessionCode == lim.gen

MayRequest(d) == pend[d] = "none" /\ nops < lim.ops

\* The link slot of device d's next peer.connect.
UsedSlots(d) == {k \in 1 .. MaxJoins : links[<<d, k>>].gst # "none"}
NextSlot(d) == Cardinality(UsedSlots(d)) + 1

\* createSession up to its await (offscreen.js:131-143).  D: the effects of
\* peer.destroy(), c: the generated code.
CreateBody(d, c, D) ==
  /\ peer' = [peer EXCEPT ![d] = [st |-> "init", id |-> sessionCodeToPeerId(c), hadId |-> FALSE]]
  /\ connections' = [connections EXCEPT ![d] = IF PeerNotNull(d) THEN {} ELSE D.conns]
  /\ sessionCode' = [sessionCode EXCEPT ![d] = c]
  /\ isHost' = [isHost EXCEPT ![d] = TRUE]
  /\ cmOp' = [cmOp EXCEPT ![d] = "create"]
  /\ registry' = D.registry
  /\ links' = D.links
  /\ reconnTimers' = [reconnTimers EXCEPT ![d] = D.timers]
  /\ inbox' = [inbox EXCEPT ![d] = Append2(@, D.msgs)]

CreateSession(d) ==
  /\ MayRequest(d)
  /\ \E c \in generateSessionCode, ord \in Orders(OpenEnds(d)) :
       CreateBody(d, c, Destroy(d, ord))
  /\ pend' = [pend EXCEPT ![d] = "create"]
  /\ lastCall' = [lastCall EXCEPT ![d] = "create"]
  /\ nops' = nops + 1
  /\ UNCHANGED <<bgVars, uiResult, resp, bcast, agentVars, rcvd, worker, faults, nlocal, lim>>

\* joinSession up to its first await (offscreen.js:154-166).
JoinSession(d, code) ==
  /\ MayRequest(d)
  /\ NextSlot(d) <= MaxJoins
  /\ \E ord \in Orders(OpenEnds(d)) :
       LET D == Destroy(d, ord) IN
         /\ peer' = [peer EXCEPT ![d] = [st |-> "init", id |-> AnonId(<<d, NextSlot(d)>>), hadId |-> FALSE]]
         /\ connections' = [connections EXCEPT ![d] = IF PeerNotNull(d) THEN {} ELSE D.conns]
         /\ sessionCode' = [sessionCode EXCEPT ![d] = toUpperCase(code)]
         /\ isHost' = [isHost EXCEPT ![d] = FALSE]
         /\ cmOp' = [cmOp EXCEPT ![d] = "joinInit"]
         /\ registry' = D.registry
         /\ links' = D.links
         /\ reconnTimers' = [reconnTimers EXCEPT ![d] = D.timers]
         /\ inbox' = [inbox EXCEPT ![d] = Append2(@, D.msgs)]
  /\ pend' = [pend EXCEPT ![d] = "join"]
  /\ lastCall' = [lastCall EXCEPT ![d] = "join"]
  /\ nops' = nops + 1
  /\ UNCHANGED <<bgVars, uiResult, resp, bcast, agentVars, rcvd, worker, faults, nlocal, lim>>

\* leaveSession (offscreen.js:198-210) and the message listener's
\* sendResponse (246-248).
LeaveResult == Success("leave", NoCode, FALSE)
\* leaveSession without its teardown of the Peer (199-202).
LeaveKeepsPeer(d, D) ==
  /\ peer' = peer
  /\ connections' = [connections EXCEPT ![d] = {}]
  /\ sessionCode' = [sessionCode EXCEPT ![d] = NoCode]
  /\ isHost' = [isHost EXCEPT ![d] = FALSE]
  /\ resp' = [resp EXCEPT ![d] = LeaveResult]
leaveSession(d, D) ==
  /\ peer' = [peer EXCEPT ![d] = NullPeer]
  /\ connections' = [connections EXCEPT ![d] = {}]
  /\ sessionCode' = [sessionCode EXCEPT ![d] = NoCode]
  /\ isHost' = [isHost EXCEPT ![d] = FALSE]
  /\ resp' = [resp EXCEPT ![d] = LeaveResult]

LeaveSession(d) ==
  /\ MayRequest(d)
  /\ \E ord \in Orders(OpenEnds(d)) :
       LET D == Destroy(d, ord) IN
         /\ leaveSession(d, D)
         /\ registry' = D.registry
         /\ links' = D.links
         /\ reconnTimers' = [reconnTimers EXCEPT ![d] = D.timers]
         /\ inbox' = [inbox EXCEPT ![d] = Append2(@, D.msgs)]
  /\ pend' = [pend EXCEPT ![d] = "leave"]
  /\ lastCall' = [lastCall EXCEPT ![d] = "leave"]
  /\ nops' = nops + 1
  /\ UNCHANGED <<cmOp, bgVars, uiResult, bcast, agentVars, rcvd, worker, faults, nlocal, lim>>

(***************************************************************************)
(* initPeer (offscreen.js:29-94): the Peer's callbacks.                    *)
(***************************************************************************)
\* reject(new Error(msg)) of the initPeer promise and what awaits it:
\* the catch blocks of createSession (145-151, without the retry) and
\* joinSession (193-195).  A settled promise ignores it.
Reject(d, msg) ==
  IF cmOp[d] \in {"create", "joinInit"}
    THEN /\ resp' = [resp EXCEPT ![d] = Failure(IF cmOp[d] = "create" THEN "create" ELSE "join", msg)]
         /\ cmOp' = [cmOp EXCEPT ![d] = "none"]
    ELSE UNCHANGED <<resp, cmOp>>

\* The 15 s timer (44-46).
InitTimeout(d) ==
  /\ cmOp[d] \in {"create", "joinInit"}
  /\ peer[d].st = "init"
  /\ faults < lim.faults
  /\ faults' = faults + 1
  /\ Reject(d, ErrInitTimeout)
  /\ UNCHANGED <<peer, connections, sessionCode, isHost, netVars, bgVars, uiVars,
                 inbox, bcast, agentVars, histVars, nops, nlocal, lim>>

\* peer.on('open') (48-53); resolve(id) continues createSession (144) or
\* joinSession (168-177: peer.connect and the 10 s timer).
PeerOpen(d) ==
  /\ peer[d].st = "init"
  /\ peer[d].id \in HostIds => registry[peer[d].id] = 0
  /\ peer' = [peer EXCEPT ![d].st = "open", ![d].hadId = TRUE]
  /\ registry' = [i \in HostIds |-> IF i = peer[d].id THEN d ELSE registry[i]]
  /\ CASE cmOp[d] = "create" ->
            /\ resp' = [resp EXCEPT ![d] = Success("create", sessionCode[d], TRUE)]
            /\ cmOp' = [cmOp EXCEPT ![d] = "none"]
            /\ UNCHANGED links
       [] cmOp[d] = "joinInit" ->
            /\ links' = [links EXCEPT ![<<d, peer[d].id.slot>>] =
                           [NoLink EXCEPT !.target = sessionCodeToPeerId(sessionCode[d]),
                                          !.gst = "connecting"]]
            /\ cmOp' = [cmOp EXCEPT ![d] = "joinConnect"]
            /\ UNCHANGED resp
       [] OTHER -> UNCHANGED <<links, resp, cmOp>>
  /\ UNCHANGED <<connections, sessionCode, isHost, reconnTimers, bgVars, uiVars,
                 inbox, bcast, agentVars, histVars, budgetVars>>

\* The catch block of createSession (145-151): the test that sends it
\* into createSession again.
GivesUpCreate(d, type) == FALSE
RetriesCreate(d, type) == cmOp[d] = "create" /\ ErrorMessage(type) = ErrInUse

\* In an environment where every generated code is taken the error
\* arrives at every attempt; it arrives while fewer than MaxPending
\* notifications and reconnect timers of the device are outstanding.
Collision(d, type) ==
  /\ lim.storm /\ type = "unavailable-id"
  /\ Len(inbox[d]) < MaxPending /\ reconnTimers[d] < MaxPending

\* peer.on('error') (60-75) for the fatal error types, followed by what the
\* library does to the Peer: destroy it if it never had an id (its
\* 'disconnected' and 'close' callbacks run), disconnect it otherwise.
PeerError(d, type) ==
  /\ peer[d].st = "init"
  /\ IF Collision(d, type)
       THEN UNCHANGED faults
       ELSE faults < lim.faults /\ faults' = faults + 1
  /\ type = "unavailable-id" => peer[d].id \in HostIds /\ registry[peer[d].id] \notin {0, d}
  /\ LET D == Destroy(d, <<>>)
         retry == RetriesCreate(d, type)
     IN
       /\ inbox' = [inbox EXCEPT ![d] =
                      Append2(@, IF peer[d].hadId THEN <<ConnectionStatus("reconnecting")>> ELSE D.msgs)]
       /\ reconnTimers' = [reconnTimers EXCEPT ![d] = @ + 1]
       /\ IF retry
            THEN \* createSession() again (146-149): destroy is a no-op now
                 /\ \E c \in generateSessionCode :
                      /\ peer' = [peer EXCEPT ![d] = [st |-> "init", id |-> sessionCodeToPeerId(c), hadId |-> FALSE]]
                      /\ sessionCode' = [sessionCode EXCEPT ![d] = c]
                 /\ connections' = [connections EXCEPT ![d] = {}]
                 /\ isHost' = [isHost EXCEPT ![d] = TRUE]
                 /\ links' = IF peer[d].hadId THEN links ELSE D.links
                 /\ UNCHANGED <<resp, cmOp>>
            ELSE /\ peer' = [peer EXCEPT ![d].st = IF peer[d].hadId THEN "disc" ELSE "destroyed"]
                 /\ links' = IF peer[d].hadId THEN links ELSE D.links
                 /\ Reject(d, ErrorMessage(type))
                 /\ UNCHANGED <<connections, sessionCode, isHost>>
  /\ UNCHANGED <<registry, bgVars, uiVars, bcast, agentVars, histVars, nops, nlocal, lim>>

\* peer.on('disconnected') (77-87): the signalling socket is lost.
PeerDisconnected(d) ==
  /\ peer[d].st = "open"
  /\ faults < lim.faults
  /\ faults' = faults + 1
  /\ peer' = [peer EXCEPT ![d].st = "disc"]
  /\ registry' = [i \in HostIds |-> IF registry[i] = d THEN 0 ELSE registry[i]]
  /\ inbox' = [inbox EXCEPT ![d] = Append(@, ConnectionStatus("reconnecting"))]
  /\ reconnTimers' = [reconnTimers EXCEPT ![d] = @ + 1]
  /\ UNCHANGED <<connections, sessionCode, isHost, cmOp, links, bgVars, uiVars,
                 resp, bcast, agentVars, histVars, nops, nlocal, lim>>

\* A timer that calls reconnect() on any Peer the global refers to.
\* The 1 s timer of the 'disconnected' callback (82-86).  peer is the
\* global: the Peer it refers to when the timer fires.  reconnect() of a
\* Peer that is not disconnected changes nothing.
ReconnectsWhatever(d) == PeerNotNull(d)
\* `if (peer && !peer.destroyed)` (83): the timer calls peer.reconnect().
CallsReconnect(d) == PeerNotNull(d) /\ ~PeerDestroyed(d)
MayReconnect(d) == CallsReconnect(d) /\ peer[d].st = "disc"

ReconnectTimer(d) ==
  /\ reconnTimers[d] > 0
  /\ reconnTimers' = [reconnTimers EXCEPT ![d] = @ - 1]
  /\ peer' = IF MayReconnect(d)
               THEN [peer EXCEPT ![d].st = "init"]
               ELSE peer
  /\ UNCHANGED <<connections, sessionCode, isHost, cmOp, registry, links, bgVars, uiVars,
                 msgVars, agentVars, histVars, budgetVars>>

(***************************************************************************)
(* Links: peer.connect, peer.on('connection'), and the callbacks of        *)
(* joinSession (offscreen.js:171-191) and setupConnection (96-129).        *)
(***************************************************************************)
\* The signalling server hands the Guest's offer to the holder of the
\* target identity: peer.on('connection') (55-58) runs setupConnection.
HostConnection(l) ==
  /\ links[l].gst = "connecting" /\ links[l].hst = "none" /\ ~links[l].expired
  /\ links[l].target \in HostIds
  /\ registry[links[l].target] # 0
  /\ peer[registry[links[l].target]].st = "open"
  /\ links' = [links EXCEPT ![l].host = registry[links[l].target], ![l].hst = "pending"]
  /\ UNCHANGED <<cmVars, registry, reconnTimers, bgVars, uiVars, msgVars, agentVars,
                 histVars, budgetVars>>

\* No Peer holds the target identity: the Guest's Peer emits 'error' with
\* type peer-unavailable, and peer.on('error') (60-75) rejects the
\* initPeer promise, which joinSession awaited before it called connect.
PeerUnavailable(l) ==
  /\ links[l].gst = "connecting" /\ links[l].hst = "none" /\ ~links[l].expired
  /\ links[l].target \in HostIds => registry[links[l].target] = 0
  /\ links' = [links EXCEPT ![l].expired = TRUE]
  /\ Reject(l[1], ErrorMessage("peer-unavailable"))
  /\ UNCHANGED <<peer, connections, sessionCode, isHost, registry, reconnTimers, bgVars,
                 uiVars, inbox, bcast, agentVars, histVars, budgetVars>>

\* conn.on('open') of joinSession (179-185).  setupConnection registers
\* its own 'open' listener during this emission, after which the
\* connection emits no further 'open': connections.set (101) does not run
\* on the Guest.
\* joinSession's 'open' callback without its conn.send (183).
NoJoinSends(l, q) == q
JoinSends(l, q) == Append(q, SyncRequest(l))

GuestConnOpen(l) ==
  /\ links[l].gst = "connecting" /\ links[l].hst \in {"pending", "open"} /\ ~links[l].dropped
  /\ links' = [links EXCEPT ![l].gst = "open", ![l].g2h = JoinSends(l, @),
                             ![l].sentReq = @ + Len(JoinSends(l, <<>>))]
  /\ resp' = [resp EXCEPT ![l[1]] = Success("join", sessionCode[l[1]], FALSE)]
  /\ cmOp' = [cmOp EXCEPT ![l[1]] = "none"]
  /\ UNCHANGED <<peer, connections, sessionCode, isHost, registry, reconnTimers, bgVars,
                 uiVars, inbox, bcast, agentVars, histVars, budgetVars>>

\* The 10 s timer of joinSession (174-177); the listener's catch reports it
\* (241-243).
JoinTimeout(l) ==
  /\ links[l].gst = "connecting"
  /\ cmOp[l[1]] = "joinConnect"
  /\ links' = [links EXCEPT ![l] = CloseEnds(l[1], l)]
  /\ resp' = [resp EXCEPT ![l[1]] = Failure("join", ErrJoinTimeout)]
  /\ cmOp' = [cmOp EXCEPT ![l[1]] = "none"]
  /\ UNCHANGED <<peer, connections, sessionCode, isHost, registry, reconnTimers, bgVars,
                 uiVars, inbox, bcast, agentVars, histVars, budgetVars>>

\* conn.on('error') of joinSession (187-191): the negotiation failed.
JoinConnError(l) ==
  /\ links[l].gst = "connecting"
  /\ cmOp[l[1]] = "joinConnect"
  /\ faults < lim.faults
  /\ faults' = faults + 1
  /\ links' = [links EXCEPT ![l] = CloseEnds(l[1], l)]
  /\ resp' = [resp EXCEPT ![l[1]] = Failure("join", ErrJoinFailed)]
  /\ cmOp' = [cmOp EXCEPT ![l[1]] = "none"]
  /\ UNCHANGED <<peer, connections, sessionCode, isHost, registry, reconnTimers, bgVars,
                 uiVars, inbox, bcast, agentVars, histVars, nops, nlocal, lim>>

\* conn.on('open') of setupConnection (99-103), on the Host's end.
HostConnOpen(l) ==
  /\ links[l].hst = "pending" /\ links[l].gst \in {"connecting", "open"} /\ ~links[l].dropped
  /\ LET h == links[l].host
         r == OnConnOpen(connections[h], AnonId(l))
     IN /\ connections' = [connections EXCEPT ![h] = r.conns]
        /\ inbox' = [inbox EXCEPT ![h] = Append(@, r.msg)]
  /\ links' = [links EXCEPT ![l].hst = "open"]
  /\ UNCHANGED <<peer, sessionCode, isHost, cmOp, registry, reconnTimers, bgVars, uiVars,
                 resp, bcast, agentVars, histVars, budgetVars>>

\* conn.on('close') of setupConnection (119-123): the other end is closed
\* or the channel is lost.  A connection that never opened closes silently.
HostConnClose(l) ==
  /\ links[l].hst \in {"pending", "open"}
  /\ links[l].gst = "closed" \/ links[l].dropped
  /\ LET h == links[l].host
         r == OnConnClose(connections[h], AnonId(l))
     IN IF links[l].hst = "open"
          THEN /\ connections' = [connections EXCEPT ![h] = r.conns]
               /\ inbox' = [inbox EXCEPT ![h] = Append(@, r.msg)]
          ELSE UNCHANGED <<connections, inbox>>
  /\ links' = [links EXCEPT ![l] = CloseEnds(links[l].host, l)]
  /\ UNCHANGED <<peer, sessionCode, isHost, cmOp, registry, reconnTimers, bgVars, uiVars,
                 resp, bcast, agentVars, histVars, budgetVars>>

GuestConnClose(l) ==
  /\ links[l].gst = "open"
  /\ links[l].hst = "closed" \/ links[l].dropped
  /\ LET r == OnConnClose(connections[l[1]], links[l].target)
     IN /\ connections' = [connections EXCEPT ![l[1]] = r.conns]
        /\ inbox' = [inbox EXCEPT ![l[1]] = Append(@, r.msg)]
  /\ links' = [links EXCEPT ![l] = CloseEnds(l[1], l)]
  /\ UNCHANGED <<peer, sessionCode, isHost, cmOp, registry, reconnTimers, bgVars, uiVars,
                 resp, bcast, agentVars, histVars, budgetVars>>

\* The data channel of an open link is lost.
LinkDrop(l) ==
  /\ links[l].gst = "open" \/ links[l].hst = "open"
  /\ ~links[l].dropped
  /\ faults < lim.faults
  /\ faults' = faults + 1
  /\ links' = [links EXCEPT ![l].dropped = TRUE, ![l].g2h = <<>>, ![l].h2g = <<>>]
  /\ UNCHANGED <<cmVars, registry, reconnTimers, bgVars, uiVars, msgVars, agentVars,
                 histVars, nops, nlocal, lim>>

\* conn.on('error') of setupConnection (125-128) on an end that is set up.
ConnError(l, d) ==
  /\ \/ d = links[l].host /\ links[l].hst \in {"pending", "open"}
     \/ d = l[1] /\ links[l].gst = "open"
  /\ faults < lim.faults
  /\ faults' = faults + 1
  /\ connections' = [connections EXCEPT ![d] = OnConnError(@, ConnKey(d, l))]
  /\ UNCHANGED <<peer, sessionCode, isHost, cmOp, netVars, bgVars, uiVars, msgVars,
                 agentVars, histVars, nops, nlocal, lim>>

\* conn.on('data') of setupConnection (105-117), for device d's end of l.
OnData(d, l, data, rest) ==
  LET from == ConnKey(d, l)
      targets == RelayTargets(d, from)
  IN /\ inbox' = [inbox EXCEPT ![d] = Append(@, PeerData(data, from))]
     /\ links' = SendAll(rest, d, targets, data)
     /\ rcvd' = IF lim.track THEN [rcvd EXCEPT ![d] = @ (+) SetToBag({data})] ELSE rcvd
     /\ UNCHANGED <<lastCall, worker>>

HostData(l) ==
  /\ links[l].hst = "open" /\ links[l].g2h # <<>>
  /\ OnData(links[l].host, l, Head(links[l].g2h), [links EXCEPT ![l].g2h = Tail(@)])
  /\ UNCHANGED <<cmVars, registry, reconnTimers, bgVars, uiVars, resp, bcast, agentVars,
                 budgetVars>>

GuestData(l) ==
  /\ links[l].gst = "open" /\ links[l].h2g # <<>>
  /\ OnData(l[1], l, Head(links[l].h2g), [links EXCEPT ![l].h2g = Tail(@)])
  /\ UNCHANGED <<cmVars, registry, reconnTimers, bgVars, uiVars, resp, bcast, agentVars,
                 budgetVars>>

\* broadcast (221-227), called for the Coordinator's 'broadcast' request,
\* which forwards a Sync Agent's video-event or sync-response (part_000:92-95).
BroadcastTargets(d) == {id \in connections[d] : ConnOpen(d, id)}

Broadcast(d) ==
  /\ bcast[d] # <<>>
  /\ links' = SendAll(links, d, BroadcastTargets(d), Head(bcast[d]))
  /\ bcast' = [bcast EXCEPT ![d] = Tail(@)]
  /\ UNCHANGED <<cmVars, registry, reconnTimers, bgVars, uiVars, inbox, resp, agentVars,
                 histVars, budgetVars>>

(***************************************************************************)
(* Sync Agent (content.js).                                                *)
(***************************************************************************)
SYNC_THRESHOLD == 5

Abs(x) == IF x < 0 THEN -x ELSE x

\* A reply that reports the element as paused.
PausedResponse(v, req, d) ==
  [type |-> "sync-response", time |-> v.time, playing |-> FALSE, speed |-> v.speed,
   tag |-> <<req.tag[1], req.tag[2], d, 0>>]

SyncResponse(v, req, d) ==
  [type |-> "sync-response", time |-> v.time, playing |-> v.playing, speed |-> v.speed,
   tag |-> <<req.tag[1], req.tag[2], d, 0>>]

\* A switch that also seeks at a difference of exactly the threshold.
SeekAtThreshold(v, data) ==
  LET timeDiff == Abs(v.time - data.time) IN
  CASE data.type = "play" ->
         [v EXCEPT !.time = IF timeDiff >= SYNC_THRESHOLD THEN data.time ELSE @, !.playing = TRUE]
    [] data.type = "pause" ->
         [v EXCEPT !.time = IF timeDiff >= SYNC_THRESHOLD THEN data.time ELSE @, !.playing = FALSE]
    [] data.type = "seek" -> [v EXCEPT !.time = data.time]
    [] data.type = "speed" -> [v EXCEPT !.speed = data.speed]
    [] data.type = "buffering" -> [v EXCEPT !.playing = FALSE]
    [] data.type = "sync-response" ->
         [v EXCEPT !.time = data.time,
                   !.speed = IF data.speed = 0 THEN 10 ELSE data.speed,
                   !.playing = data.playing]
    [] OTHER -> v

\* The element after applySync's switch (content.js:182-245).
ApplyToVideo(v, data) ==
  LET timeDiff == Abs(v.time - data.time) IN
  CASE data.type = "play" ->
         [v EXCEPT !.time = IF timeDiff > SYNC_THRESHOLD THEN data.time ELSE @, !.playing = TRUE]
    [] data.type = "pause" ->
         [v EXCEPT !.time = IF timeDiff > SYNC_THRESHOLD THEN data.time ELSE @, !.playing = FALSE]
    [] data.type = "seek" -> [v EXCEPT !.time = data.time]
    [] data.type = "speed" -> [v EXCEPT !.speed = data.speed]
    [] data.type = "buffering" -> [v EXCEPT !.playing = FALSE]
    [] data.type = "sync-response" ->
         [v EXCEPT !.time = data.time,
                   !.speed = IF data.speed = 0 THEN 10 ELSE data.speed,
                   !.playing = data.playing]
    [] OTHER -> v

\* applySync (content.js:172-250) on device d's active page.
applySync(d, data) ==
  IF ~video[d].bound
    THEN UNCHANGED <<video, ignoreEvents, ignTimers, bcast>>
    ELSE /\ ignoreEvents' = [ignoreEvents EXCEPT ![d] = TRUE]
         /\ video' = [video EXCEPT ![d] = ApplyToVideo(@, data)]
         /\ bcast' = IF data.type = "sync-request"
                       THEN [bcast EXCEPT ![d] = Append(@, SyncResponse(video[d], data, d))]
                       ELSE bcast
         /\ ignTimers' = [ignTimers EXCEPT ![d] = @ + 1]

\* The 200 ms timer of applySync (247-249).
IgnoreTimer(d) ==
  /\ ignTimers[d] > 0
  /\ ignTimers' = [ignTimers EXCEPT ![d] = @ - 1]
  /\ ignoreEvents' = [ignoreEvents EXCEPT ![d] = FALSE]
  /\ UNCHANGED <<cmVars, netVars, bgVars, uiVars, msgVars, video, debounceTimers,
                 bufVars, histVars, budgetVars>>

\* The user acts on the element, its listener runs (onPlay, onPause,
\* onSeeked, onRateChange: content.js:104-138) and arms the debounce
\* timer of its kind (97-101).
LocalTimes == {100}
LocalSpeeds == {20}

\* A listener that never returns early.
NeverSuppressed(d) == FALSE

\* `if (ignoreEvents) return;` at the head of each listener (105-141).
Suppressed(d) == ignoreEvents[d]

\* A debounce that keeps the timer already pending for the key.
DebounceFirstWins(timers, d, key, data) ==
  IF timers[d][key] # NoEvent THEN timers ELSE [timers EXCEPT ![d][key] = data]

\* debounce (97-101): the key's pending timer is cleared and a new one set.
debounce(timers, d, key, data) == [timers EXCEPT ![d][key] = data]

InSession(d) ==
  \E l \in LinkId :
    /\ links[l].hst = "open" /\ links[l].gst = "open" /\ ~links[l].dropped
    /\ d \in {l[1], links[l].host}
LocalEvent(d, kind, t, sp) ==
  [type |-> IF kind = "rate" THEN "speed" ELSE kind,
   time |-> IF kind = "rate" THEN 0 ELSE t,
   playing |-> FALSE,
   speed |-> IF kind = "rate" THEN sp ELSE 0,
   tag |-> <<d, IF InSession(d) THEN 1 ELSE 0, 0, nlocal + 1>>]

BufferingEvent(d) ==
  [type |-> "buffering", time |-> video[d].time, playing |-> FALSE, speed |-> 0,
   tag |-> <<d, IF InSession(d) THEN 1 ELSE 0, 0, nlocal + 1>>]

\* play() on a paused element that waits for data fires 'play' and then
\* 'waiting' (no 'playing'): onPlay and onBuffering both run.
Replays(d, kind) == kind = "play" /\ ~video[d].playing /\ stalled[d]

UserAction(d, kind, t, sp) ==
  /\ video[d].bound
  /\ nlocal < lim.local
  /\ nlocal' = nlocal + 1
  /\ video' = [video EXCEPT ![d] =
       CASE kind = "play" -> [@ EXCEPT !.playing = TRUE]
         [] kind = "pause" -> [@ EXCEPT !.playing = FALSE]
         [] kind = "seek" -> [@ EXCEPT !.time = t]
         [] OTHER -> [@ EXCEPT !.speed = sp]]
  /\ LET armed == debounce(debounceTimers, d, kind,
                     LocalEvent(d, kind, IF kind = "seek" THEN t ELSE video[d].time, sp))
     IN IF Suppressed(d)
          THEN UNCHANGED <<debounceTimers, isBuffering>>
          ELSE IF Replays(d, kind) /\ ~isBuffering[d]
                 THEN /\ debounceTimers' = debounce(armed, d, "buffer", BufferingEvent(d))
                      /\ isBuffering' = [isBuffering EXCEPT ![d] = TRUE]
                 ELSE /\ debounceTimers' = armed
                      /\ UNCHANGED isBuffering
  /\ UNCHANGED <<cmVars, netVars, bgVars, uiVars, msgVars, ignoreEvents, ignTimers,
                 stalled, histVars, nops, faults, lim>>

\* A debounce timer fires: sendEvent (154-159) hands the event to the
\* Coordinator, which forwards it as a 'broadcast' request.
DebounceFire(d, kind) ==
  /\ debounceTimers[d][kind] # NoEvent
  /\ bcast' = [bcast EXCEPT ![d] = Append(@, debounceTimers[d][kind])]
  /\ debounceTimers' = [debounceTimers EXCEPT ![d][kind] = NoEvent]
  /\ UNCHANGED <<cmVars, netVars, bgVars, uiVars, inbox, resp, video, ignoreEvents,
                 ignTimers, bufVars, histVars, budgetVars>>

\* The element runs out of data and fires 'waiting': onBuffering (140-148).
Waiting(d) ==
  /\ video[d].bound /\ video[d].playing /\ ~stalled[d]
  /\ nlocal < lim.local
  /\ nlocal' = nlocal + 1
  /\ stalled' = [stalled EXCEPT ![d] = TRUE]
  /\ IF Suppressed(d) \/ isBuffering[d]
       THEN UNCHANGED <<isBuffering, debounceTimers>>
       ELSE /\ isBuffering' = [isBuffering EXCEPT ![d] = TRUE]
            /\ debounceTimers' = debounce(debounceTimers, d, "buffer", BufferingEvent(d))
  /\ UNCHANGED <<cmVars, netVars, bgVars, uiVars, msgVars, video, ignoreEvents, ignTimers,
                 histVars, nops, faults, lim>>

\* The element has data again and fires 'playing': onPlaying (150-152).
Playing(d) ==
  /\ stalled[d]
  /\ stalled' = [stalled EXCEPT ![d] = FALSE]
  /\ isBuffering' = [isBuffering EXCEPT ![d] = FALSE]
  /\ UNCHANGED <<cmVars, netVars, bgVars, uiVars, msgVars, video, ignoreEvents, ignTimers,
                 debounceTimers, histVars, budgetVars>>

(***************************************************************************)
(* Session Coordinator (part_000).                                         *)
(***************************************************************************)
\* A Coordinator that takes every result for a session.
ActivatesAlways(r) == TRUE
\* `if (result.success)` of handleCreateSession and handleJoinSession.
Activates(r) == r.success

\* handleCreateSession after its await (128-140).
CoordCreateDone(d) ==
  /\ resp[d].op = "create"
  /\ IF Activates(resp[d])
       THEN /\ bgSessionCode' = [bgSessionCode EXCEPT ![d] = resp[d].code]
            /\ bgIsHost' = [bgIsHost EXCEPT ![d] = TRUE]
            /\ peerCount' = [peerCount EXCEPT ![d] = 1]
            /\ badge' = [badge EXCEPT ![d] = "0"]
            /\ popupEnabled' = [popupEnabled EXCEPT ![d] = TRUE]
       ELSE UNCHANGED bgVars
  /\ uiResult' = [uiResult EXCEPT ![d] = resp[d]]
  /\ resp' = [resp EXCEPT ![d] = NoResult]
  /\ pend' = [pend EXCEPT ![d] = "none"]
  /\ UNCHANGED <<cmVars, netVars, inbox, bcast, agentVars, histVars, budgetVars>>

\* handleJoinSession after its await (150-162).
CoordJoinDone(d) ==
  /\ resp[d].op = "join"
  /\ IF Activates(resp[d])
       THEN /\ bgSessionCode' = [bgSessionCode EXCEPT ![d] = resp[d].code]
            /\ bgIsHost' = [bgIsHost EXCEPT ![d] = FALSE]
            /\ peerCount' = [peerCount EXCEPT ![d] = 2]
            /\ badge' = [badge EXCEPT ![d] = "1"]
            /\ popupEnabled' = [popupEnabled EXCEPT ![d] = TRUE]
       ELSE UNCHANGED bgVars
  /\ uiResult' = [uiResult EXCEPT ![d] = resp[d]]
  /\ resp' = [resp EXCEPT ![d] = NoResult]
  /\ pend' = [pend EXCEPT ![d] = "none"]
  /\ UNCHANGED <<cmVars, netVars, inbox, bcast, agentVars, histVars, budgetVars>>

\* handleLeaveSession after its await (172-179).
\* A report that answers a leave with a failure.
LeaveReportStrict(r) == Failure("leave", "Not in a session")
LeaveReport(r) == r

CoordLeaveDone(d) ==
  /\ resp[d].op = "leave"
  /\ bgSessionCode' = [bgSessionCode EXCEPT ![d] = NoCode]
  /\ bgIsHost' = [bgIsHost EXCEPT ![d] = FALSE]
  /\ peerCount' = [peerCount EXCEPT ![d] = 0]
  /\ badge' = [badge EXCEPT ![d] = ""]
  /\ popupEnabled' = [popupEnabled EXCEPT ![d] = FALSE]
  /\ uiResult' = [uiResult EXCEPT ![d] = LeaveReport(resp[d])]
  /\ resp' = [resp EXCEPT ![d] = NoResult]
  /\ pend' = [pend EXCEPT ![d] = "none"]
  /\ UNCHANGED <<cmVars, netVars, inbox, bcast, agentVars, histVars, budgetVars>>

\* handleLeaveSession when the request to the Connection Manager is
\* rejected: its catch block (180-184).
LeaveFailed(d) ==
  /\ MayRequest(d)
  /\ faults < lim.faults
  /\ faults' = faults + 1
  /\ nops' = nops + 1
  /\ popupEnabled' = [popupEnabled EXCEPT ![d] = FALSE]
  /\ uiResult' = [uiResult EXCEPT ![d] = LeaveResult]
  /\ UNCHANGED <<cmVars, netVars, bgSessionCode, bgIsHost, peerCount, badge, pend,
                 msgVars, agentVars, histVars, nlocal, lim>>

\* handleCreateSession or handleJoinSession when the request to the
\* Connection Manager is rejected: their catch blocks (141-144, 163-166).
ErrRejected == "Could not establish connection"
RequestRejected(d, op) ==
  /\ MayRequest(d)
  /\ faults < lim.faults
  /\ faults' = faults + 1
  /\ nops' = nops + 1
  /\ uiResult' = [uiResult EXCEPT ![d] = Failure(op, ErrRejected)]
  /\ UNCHANGED <<cmVars, netVars, bgVars, pend, msgVars, agentVars, histVars, nlocal, lim>>

\* handleGetStatus (187-211), asked by the UI surface: the mirror takes
\* the Connection Manager's getStatus.
GetStatus(d) ==
  /\ pend[d] = "none" /\ resp[d] = NoResult
  /\ bgSessionCode' = [bgSessionCode EXCEPT ![d] = getStatus(d).sessionCode]
  /\ bgIsHost' = [bgIsHost EXCEPT ![d] = getStatus(d).isHost]
  /\ peerCount' = [peerCount EXCEPT ![d] = getStatus(d).peerCount]
  /\ UNCHANGED <<cmVars, netVars, badge, popupEnabled, uiVars, msgVars, agentVars,
                 histVars, budgetVars>>

\* The keepalive alarm fires (265-272); the Connection Manager answers a
\* ping with a pong and changes nothing (offscreen.js:259-261).
SendsPing(d) == bgSessionCode[d] # NoCode
KeepaliveAlarm(d) ==
  /\ worker[d].ticks < MaxTicks
  /\ worker' = [worker EXCEPT ![d].ticks = @ + 1,
                              ![d].pings = IF SendsPing(d) THEN @ + 1 ELSE @]
  /\ UNCHANGED <<cmVars, netVars, bgVars, uiVars, msgVars, agentVars, rcvd, lastCall,
                 budgetVars>>

\* The test of initializePopupState (279).
Resyncs(st) == st.connected /\ st.sessionCode # NoCode

\* The service worker is stopped and started again while no request is
\* being handled: its globals start over (4-7) and initializePopupState
\* (274-293) runs.
CoordRestart(d) ==
  /\ pend[d] = "none" /\ resp[d] = NoResult
  /\ worker[d].restarts < MaxRestarts
  /\ worker' = [worker EXCEPT ![d].restarts = @ + 1]
  /\ LET st == getStatus(d) IN
       IF Resyncs(st)
         THEN /\ bgSessionCode' = [bgSessionCode EXCEPT ![d] = st.sessionCode]
              /\ bgIsHost' = [bgIsHost EXCEPT ![d] = st.isHost]
              /\ peerCount' = [peerCount EXCEPT ![d] = st.peerCount]
              /\ popupEnabled' = [popupEnabled EXCEPT ![d] = TRUE]
         ELSE /\ bgSessionCode' = [bgSessionCode EXCEPT ![d] = NoCode]
              /\ bgIsHost' = [bgIsHost EXCEPT ![d] = FALSE]
              /\ peerCount' = [peerCount EXCEPT ![d] = 0]
              /\ popupEnabled' = [popupEnabled EXCEPT ![d] = FALSE]
  /\ UNCHANGED <<cmVars, netVars, badge, uiVars, msgVars, agentVars, rcvd, lastCall,
                 budgetVars>>

\* handleOffscreenMessage (213-263) on the oldest notification; peer-data
\* goes to the active page's Sync Agent (239-250, content.js:411-413).
CoordNotify(d) ==
  /\ inbox[d] # <<>>
  /\ inbox' = [inbox EXCEPT ![d] = Tail(@)]
  /\ LET m == Head(inbox[d]) IN
       CASE m.action = "peer-joined" ->
              /\ peerCount' = [peerCount EXCEPT ![d] = m.count]
              /\ badge' = [badge EXCEPT ![d] = ToString(m.count - 1)]
              /\ UNCHANGED <<bgSessionCode, bgIsHost, popupEnabled, agentVars, bcast>>
         [] m.action = "peer-left" ->
              /\ peerCount' = [peerCount EXCEPT ![d] = m.count]
              /\ badge' = [badge EXCEPT ![d] = IF m.count > 1 THEN ToString(m.count - 1) ELSE "0"]
              /\ UNCHANGED <<bgSessionCode, bgIsHost, popupEnabled, agentVars, bcast>>
         [] m.action = "peer-data" ->
              /\ applySync(d, m.data)
              /\ UNCHANGED <<bgVars, debounceTimers, bufVars>>
         [] m.action = "connection-status" /\ m.status = "reconnecting" ->
              /\ badge' = [badge EXCEPT ![d] = "!"]
              /\ UNCHANGED <<bgSessionCode, bgIsHost, peerCount, popupEnabled, agentVars, bcast>>
         [] m.action = "connection-status" /\ m.status = "closed" ->
              /\ badge' = [badge EXCEPT ![d] = ""]
              /\ bgSessionCode' = [bgSessionCode EXCEPT ![d] = NoCode]
              /\ popupEnabled' = [popupEnabled EXCEPT ![d] = FALSE]
              /\ UNCHANGED <<bgIsHost, peerCount, agentVars, bcast>>
         [] OTHER -> UNCHANGED <<bgVars, agentVars, bcast>>
  /\ UNCHANGED <<cmVars, netVars, uiVars, resp, histVars, budgetVars>>

(***************************************************************************)
(* Specifications.                                                         *)
(***************************************************************************)
Request ==
  \/ \E d \in lim.creators : CreateSession(d)
  \/ \E d \in lim.joiners, code \in lim.codes : JoinSession(d, code)
  \/ \E d \in lim.creators \cup lim.joiners : LeaveSession(d) \/ LeaveFailed(d)

PeerEvent ==
  \E d \in Dev :
    \/ PeerOpen(d)
    \/ \E type \in {"unavailable-id", "network", "server-error"} : PeerError(d, type)
    \/ InitTimeout(d)
    \/ PeerDisconnected(d)
    \/ ReconnectTimer(d)

LinkEvent ==
  \E l \in LinkId :
    \/ HostConnection(l)
    \/ PeerUnavailable(l)
    \/ GuestConnOpen(l)
    \/ HostConnOpen(l)
    \/ JoinTimeout(l)
    \/ JoinConnError(l)
    \/ HostConnClose(l)
    \/ GuestConnClose(l)
    \/ LinkDrop(l)
    \/ \E d \in Dev : ConnError(l, d)
    \/ HostData(l)

Coordinator ==
  \E d \in Dev :
    \/ CoordCreateDone(d)
    \/ CoordJoinDone(d)
    \/ CoordLeaveDone(d)
    \/ CoordNotify(d)

\* The page's media element reports the user's actions; timers fire.
Agent ==
  \E d \in Dev, kind \in Kinds :
    \/ \E t \in LocalTimes, sp \in LocalSpeeds : UserAction(d, kind, t, sp)
    \/ DebounceFire(d, kind)

Next == Request \/ PeerEvent \/ LinkEvent \/ Coordinator

\* Two devices that create, join and leave, with environment faults.
Init ==
  Start([ops |-> MaxOps, faults |-> MaxFaults, local |-> 0,
         creators |-> {1}, joiners |-> {2}, gen |-> OneCode, track |-> FALSE, storm |-> FALSE,
         codes |-> JoinCodes], [d \in Dev |-> NoVideo])
Spec == Init /\ [][Next]_vars

\* One Host and every other device a Guest.
InitRelay ==
  Start([ops |-> RelayOps, faults |-> RelayFaults, local |-> 0,
         creators |-> {1}, joiners |-> Dev \ {1}, gen |-> OneCode, track |-> TRUE, storm |-> FALSE,
         codes |-> {TypedCode}], [d \in Dev |-> NoVideo])
NextRelay == Next \/ \E l \in LinkId : GuestData(l)
SpecRelay == InitRelay /\ [][NextRelay]_vars

\* Devices that only create and leave, drawing from two codes.
InitCreate ==
  Start([ops |-> CreateOps, faults |-> CreateFaults, local |-> 0,
         creators |-> {1, 2}, joiners |-> {}, gen |-> GenCodes, track |-> FALSE, storm |-> FALSE,
         codes |-> {}], [d \in Dev |-> NoVideo])
NextCreate ==
  \E d \in Dev :
    \/ d \in lim.creators /\ (CreateSession(d) \/ LeaveSession(d))
    \/ PeerOpen(d)
    \/ PeerError(d, "unavailable-id")
    \/ PeerDisconnected(d)
    \/ ReconnectTimer(d)
    \/ CoordCreateDone(d)
    \/ CoordLeaveDone(d)
    \/ CoordNotify(d)
SpecCreate == InitCreate /\ [][NextCreate]_vars

\* Two devices create sessions where generateSessionCode has one code to
\* give: the second createSession finds every code taken.  Every callback
\* that can run does run eventually.
InitCollide ==
  Start([ops |-> CollideOps, faults |-> 0, local |-> 0,
         creators |-> {1, 2}, joiners |-> {}, gen |-> OneCode, track |-> FALSE, storm |-> TRUE,
         codes |-> {}], [d \in Dev |-> NoVideo])
NextCollide ==
  \E d \in Dev :
    \/ d \in lim.creators /\ CreateSession(d)
    \/ PeerOpen(d)
    \/ PeerError(d, "unavailable-id")
    \/ ReconnectTimer(d)
    \/ CoordCreateDone(d)
    \/ CoordNotify(d)
FairCollide ==
  \A d \in Dev : /\ WF_vars(PeerOpen(d))
                 /\ WF_vars(PeerError(d, "unavailable-id"))
                 /\ WF_vars(ReconnectTimer(d))
                 /\ WF_vars(CoordCreateDone(d))
                 /\ WF_vars(CoordNotify(d))
SpecCollide == InitCollide /\ [][NextCollide]_vars /\ FairCollide

\* A Host and a Guest with bound media elements and local playback
\* events; every step that is not the user's or a fault is taken
\* eventually.
InitSync ==
  Start([ops |-> SyncOps, faults |-> 0, local |-> MaxLocal,
         creators |-> {1}, joiners |-> {2}, gen |-> OneCode, track |-> TRUE, storm |-> FALSE,
         codes |-> {TypedCode, MixedCode}], InitVideo)
NextSync ==
  \/ CreateSession(1)
  \/ \E code \in lim.codes : JoinSession(2, code)
  \/ \E d \in Dev : PeerOpen(d) \/ CoordCreateDone(d) \/ CoordJoinDone(d) \/ CoordNotify(d)
                      \/ Broadcast(d) \/ IgnoreTimer(d)
  \/ \E l \in LinkId : HostConnection(l) \/ PeerUnavailable(l) \/ GuestConnOpen(l)
                         \/ HostConnOpen(l) \/ JoinTimeout(l) \/ HostData(l) \/ GuestData(l)
  \/ Agent
Fairness ==
  /\ \A d \in Dev : /\ WF_vars(PeerOpen(d))
                     /\ WF_vars(CoordCreateDone(d) \/ CoordJoinDone(d))
                     /\ WF_vars(CoordNotify(d))
                     /\ WF_vars(Broadcast(d))
                     /\ WF_vars(\E kind \in Kinds : DebounceFire(d, kind))
  /\ \A l \in LinkId : /\ WF_vars(HostConnOpen(l))
                        /\ WF_vars(HostData(l))
                        /\ WF_vars(GuestData(l))
SpecSync == InitSync /\ [][NextSync]_vars /\ Fairness

\* A Host and a Guest that create, join and leave with environment
\* faults, as in Spec, where requests may also be rejected, the UI asks
\* for the status, the keepalive alarm fires and the Coordinator's
\* service worker restarts.
InitCoord ==
  Start([ops |-> CoordOps, faults |-> CoordFaults, local |-> 0,
         creators |-> {1}, joiners |-> {2}, gen |-> OneCode, track |-> FALSE, storm |-> FALSE,
         codes |-> {TypedCode}], [d \in Dev |-> NoVideo])
NextCoord ==
  \/ Next
  \/ \E d \in lim.creators : RequestRejected(d, "create")
  \/ \E d \in lim.joiners : RequestRejected(d, "join")
  \/ \E d \in lim.creators \cup lim.joiners : GetStatus(d)
  \/ \E d \in lim.creators \cup lim.joiners : KeepaliveAlarm(d)
  \/ \E d \in lim.creators \cup lim.joiners : CoordRestart(d)
SpecCoord == InitCoord /\ [][NextCoord]_vars

\* A Host and a Guest in an established session.  Either the Guest's
\* sync-request is on its way to the Host, whose element is in any of the
\* states of ApplyVideos, or an event of the Host, sent twice, is on its
\* way to the Guest, whose element is in any of those states.
ApplyTimes == {0, 95, 100}
ApplySpeeds == {10, 15}
ApplyVideos ==
  [bound : {TRUE}, time : ApplyTimes, playing : BOOLEAN, speed : ApplySpeeds]
RemoteTimes == {0, 95, 100, 102, 105, 106, 120}
RemoteSpeeds == {0, 10, 15}
HostEvent(type, t, pl, sp) ==
  [type |-> type, time |-> t, playing |-> pl, speed |-> sp, tag |-> <<1, 1, 0, 1>>]
ApplyEvents ==
  {HostEvent(type, t, FALSE, 0) : type \in {"play", "pause"}, t \in RemoteTimes}
    \cup {HostEvent("seek", t, FALSE, 0) : t \in {0, 120}}
    \cup {HostEvent("speed", 0, FALSE, sp) : sp \in RemoteSpeeds \ {0}}
    \cup {HostEvent("buffering", 100, FALSE, 0)}
    \cup {[type |-> "sync-response", time |-> t, playing |-> pl, speed |-> sp,
           tag |-> <<2, 1, 1, 0>>] : t \in {0, 120}, pl \in BOOLEAN, sp \in RemoteSpeeds}

GuestLink == <<2, 1>>
Established(videos, toHost, toGuest, locals) ==
  /\ lim = [ops |-> 2, faults |-> 0, local |-> locals, creators |-> {1}, joiners |-> {2},
            gen |-> OneCode, track |-> TRUE, storm |-> FALSE, codes |-> {TypedCode}]
  /\ video = videos
  /\ peer = [d \in Dev |->
       CASE d = 1 -> [st |-> "open", id |-> sessionCodeToPeerId(HostCode), hadId |-> TRUE]
         [] d = 2 -> [st |-> "open", id |-> AnonId(GuestLink), hadId |-> TRUE]
         [] OTHER -> NullPeer]
  /\ connections = [d \in Dev |-> IF d = 1 THEN {AnonId(GuestLink)} ELSE {}]
  /\ sessionCode = [d \in Dev |-> IF d \in {1, 2} THEN HostCode ELSE NoCode]
  /\ isHost = [d \in Dev |-> d = 1]
  /\ cmOp = [d \in Dev |-> "none"]
  /\ registry = [i \in HostIds |-> IF i = sessionCodeToPeerId(HostCode) THEN 1 ELSE 0]
  /\ links = [l \in LinkId |->
       IF l = GuestLink
         THEN [NoLink EXCEPT !.target = sessionCodeToPeerId(HostCode), !.host = 1,
                             !.gst = "open", !.hst = "open", !.sentReq = 1,
                             !.g2h = toHost, !.h2g = toGuest]
         ELSE NoLink]
  /\ reconnTimers = [d \in Dev |-> 0]
  /\ bgSessionCode = [d \in Dev |-> IF d \in {1, 2} THEN HostCode ELSE NoCode]
  /\ bgIsHost = [d \in Dev |-> d = 1]
  /\ peerCount = [d \in Dev |-> IF d \in {1, 2} THEN 2 ELSE 0]
  /\ badge = [d \in Dev |-> IF d \in {1, 2} THEN "1" ELSE ""]
  /\ popupEnabled = [d \in Dev |-> d \in {1, 2}]
  /\ pend = [d \in Dev |-> "none"]
  /\ uiResult = [d \in Dev |->
       CASE d = 1 -> Success("create", HostCode, TRUE)
         [] d = 2 -> Success("join", HostCode, FALSE)
         [] OTHER -> NoResult]
  /\ inbox = [d \in Dev |-> <<>>]
  /\ resp = [d \in Dev |-> NoResult]
  /\ bcast = [d \in Dev |-> <<>>]
  /\ ignoreEvents = [d \in Dev |-> FALSE]
  /\ ignTimers = [d \in Dev |-> 0]
  /\ debounceTimers = [d \in Dev |-> [k \in TimerKeys |-> NoEvent]]
  /\ isBuffering = [d \in Dev |-> FALSE]
  /\ stalled = [d \in Dev |-> FALSE]
  /\ nops = 2
  /\ faults = 0
  /\ nlocal = 0
  /\ rcvd = [d \in Dev |-> EmptyBag]
  /\ lastCall = [d \in Dev |-> CASE d = 1 -> "create" [] d = 2 -> "join" [] OTHER -> "none"]
  /\ worker = [d \in Dev |-> [ticks |-> 0, pings |-> 0, restarts |-> 0]]

InitApply ==
  \/ \E hv \in ApplyVideos :
       Established([InitVideo EXCEPT ![1] = hv], <<SyncRequest(GuestLink)>>, <<>>, 0)
  \/ \E gv \in ApplyVideos, e \in ApplyEvents :
       Established([InitVideo EXCEPT ![2] = gv], <<>>, <<e, e>>, 0)
NextApply ==
  \/ \E l \in LinkId : HostData(l) \/ GuestData(l)
  \/ \E d \in Dev : CoordNotify(d) \/ Broadcast(d) \/ IgnoreTimer(d)
SpecApply == InitApply /\ [][NextApply]_vars

\* A Host and a Guest in an established session, both playing at 10 s;
\* their elements stall and resume.  Every timer fires, every message is
\* delivered and handled, and a stalled element has data again eventually.
InitBuffer ==
  Established([d \in Dev |->
                 IF d \in {1, 2}
                   THEN [bound |-> TRUE, time |-> 100, playing |-> TRUE, speed |-> 10]
                   ELSE NoVideo],
              <<>>, <<>>, MaxStalls)
NextBuffer ==
  \/ \E d \in Dev : \/ Waiting(d)
                     \/ Playing(d)
                     \/ DebounceFire(d, "buffer")
                     \/ Broadcast(d)
                     \/ CoordNotify(d)
                     \/ IgnoreTimer(d)
  \/ \E l \in LinkId : GuestData(l)
FairBuffer ==
  /\ \A d \in Dev : /\ WF_vars(Playing(d))
                     /\ WF_vars(DebounceFire(d, "buffer"))
                     /\ WF_vars(Broadcast(d))
                     /\ WF_vars(CoordNotify(d))
                     /\ WF_vars(IgnoreTimer(d))
  /\ \A l \in LinkId : WF_vars(GuestData(l))
SpecBuffer == InitBuffer /\ [][NextBuffer]_vars /\ FairBuffer

\* A Host and a Guest in an established session, both playing at 9.5 s,
\* with one event of the Host on its way to the Guest; the users act on
\* both elements and the elements stall and resume.
EchoEvents == {HostEvent("seek", 120, FALSE, 0), HostEvent("play", 120, FALSE, 0)}
InitEcho ==
  \E e \in EchoEvents :
    Established([d \in Dev |->
                   IF d \in {1, 2}
                     THEN [bound |-> TRUE, time |-> 95, playing |-> TRUE, speed |-> 10]
                     ELSE NoVideo],
                <<>>, <<e>>, MaxEcho)
NextEcho ==
  \/ \E d \in Dev :
       \/ \E kind \in Kinds, t \in LocalTimes, sp \in LocalSpeeds : UserAction(d, kind, t, sp)
       \/ \E key \in TimerKeys : DebounceFire(d, key)
       \/ Waiting(d)
       \/ Playing(d)
       \/ Broadcast(d)
       \/ CoordNotify(d)
       \/ IgnoreTimer(d)
  \/ \E l \in LinkId : GuestData(l)
SpecEcho == InitEcho /\ [][NextEcho]_vars

(***************************************************************************)
(* Properties.                                                             *)
(***************************************************************************)
\* C1: once leaveSession has returned on a device, and until its next
\* createSession or joinSession, getStatus reports connected = false and
\* peerCount = 0, whatever the state was before (idle, hosting with
\* links, joined, connecting) and whichever callbacks arrive afterwards.
StatusAfterLeave ==
  \A d \in Dev :
    lastCall[d] = "leave" =>
      /\ getStatus(d).connected = FALSE
      /\ getStatus(d).peerCount = 0

\* A Host that had a Guest's link has left and the leave is complete.
LeftWhileHosting ==
  \E l \in LinkId :
    /\ links[l].host = 1
    /\ links[l].hst = "closed"
    /\ lastCall[1] = "leave"
    /\ uiResult[1].op = "leave"
    /\ pend[1] = "none"

\* C10: leaveSession reports success, at the Connection Manager and at
\* the Coordinator, from every state: with or without a session, and
\* when the request to the Connection Manager fails.
LeaveAlwaysSucceeds ==
  \A d \in Dev :
    /\ resp[d].op = "leave" => resp[d].success
    /\ uiResult[d].op = "leave" => uiResult[d].success

\* A leave was reported although the request to the Connection Manager
\* failed: the mirror still holds the session.
LeaveReportedAfterFailure ==
  \E d \in Dev :
    /\ uiResult[d].op = "leave"
    /\ bgSessionCode[d] # NoCode
    /\ lastCall[d] # "leave"

\* The step in which the Host's 'data' handler takes the oldest event of
\* link l: the event leaves the link and reaches the Coordinator as
\* peer-data from the link's Guest.
HostHandles(l) ==
  /\ links[l].hst = "open" /\ links'[l].hst = "open"
  /\ links[l].g2h # <<>>
  /\ links'[l].g2h = Tail(links[l].g2h)
  /\ inbox'[links[l].host] =
       Append(inbox[links[l].host], PeerData(Head(links[l].g2h), AnonId(l)))

\* C3: when the Host handles an event that arrived on the link of Guest
\* P, nothing is sent on the link to P: the relay never echoes an event
\* to its origin, however many links are open.
NoEchoToOrigin ==
  [][\A l \in LinkId : HostHandles(l) => links'[l].h2g = links[l].h2g]_vars

\* A Guest's event was relayed to another Guest while both links were open.
RelayedToOther ==
  \E l, m \in LinkId :
    /\ l # m
    /\ links[l].hst = "open" /\ links[m].hst = "open"
    /\ links[l].host = links[m].host
    /\ SyncRequest(l) \in {links[m].h2g[i] : i \in 1..Len(links[m].h2g)}
    /\ links[l].h2g = <<>>

\* Link m is open at both ends.
LinkOpen(m) == links[m].hst = "open" /\ links[m].gst = "open" /\ ~links[m].dropped
\* C2: when the Host handles an event from Guest G's open link, every
\* other Guest whose link is open is sent the event, unchanged and
\* exactly once, by that relay.
RelayToEveryOpenLink ==
  [][\A l, m \in LinkId :
       (/\ l # m
        /\ HostHandles(l)
        /\ isHost[links[l].host]
        /\ links[m].host = links[l].host
        /\ LinkOpen(l) /\ LinkOpen(m))
       => links'[m].h2g = Append(links[m].h2g, Head(links[l].g2h))]_vars

\* C8: while a Guest's link to the Host is open, the Guest's link
\* mapping holds exactly one entry, keyed by the identity derived from
\* the session code.
GuestMapsHostLink ==
  \A l \in LinkId :
    (links[l].gst = "open" /\ sessionCode[l[1]] # NoCode) =>
      connections[l[1]] = {sessionCodeToPeerId(sessionCode[l[1]])}

\* C6: a joinSession for whose target the signalling server reported that
\* no Peer holds the identity ends in a failure with the 'session not
\* found' reason.
JoinUnknownReportsNotFound ==
  \A l \in LinkId :
    (/\ links[l].expired
     /\ peer[l[1]].id = AnonId(l)
     /\ resp[l[1]].op = "join")
    => /\ ~resp[l[1]].success
       /\ resp[l[1]].error = ErrNotFound

\* Device d's Coordinator mirrors a session and has nothing to handle:
\* no request outstanding and no notification in flight.
MirrorSettled(d) ==
  /\ bgSessionCode[d] # NoCode
  /\ pend[d] = "none"
  /\ resp[d] = NoResult
  /\ inbox[d] = <<>>

\* C4: when no notification is in flight, the Coordinator's peerCount is
\* 1 plus the number of open links in the Connection Manager's mapping.
MirrorCountsOpenLinks ==
  \A d \in Dev :
    MirrorSettled(d) =>
      peerCount[d] = 1 + Cardinality({id \in connections[d] : ConnOpen(d, id)})

\* Device d hosts a session whose identity the signalling server holds
\* for it; d's session is live when its Peer opened as Host and was not
\* destroyed since, registered or not.
HostRegistered(d) == isHost[d] /\ sessionCode[d] # NoCode /\ peer[d].st = "open"
HostLive(d) == isHost[d] /\ sessionCode[d] # NoCode /\ PeerAlive(d) /\ peer[d].hadId

Collides(d) ==
  /\ cmOp[d] = "create" /\ peer[d].st = "init"
  /\ registry[peer[d].id] \notin {0, d}
  /\ reconnTimers'[d] > reconnTimers[d]

Received(d) == BagToSet(rcvd[d])
\* The Host's answer to the sync-request of link l.
AnswersJoin(e, l) ==
  e.type = "sync-response" /\ e.tag = <<l[1], l[2], links[l].host, 0>>

\* C9: a joinSession that succeeds has sent exactly one sync-request on
\* its link when success is reported, and none is sent later; a
\* sync-response is made from the element's position, playing flag and
\* speed; and when the Host's page has a bound element, the joiner
\* eventually receives the Host's sync-response, or the link is no longer
\* open.
JoinRequestsSync ==
  /\ [](\A l \in LinkId :
          /\ links[l].sentReq <= 1
          /\ links[l].gst = "open" => links[l].sentReq = 1
          /\ (resp[l[1]].op = "join" /\ resp[l[1]].success /\ peer[l[1]].id = AnonId(l))
                => links[l].sentReq = 1)
  /\ [][\A d \in Dev :
          (Len(bcast'[d]) > Len(bcast[d]) /\ bcast'[d][Len(bcast'[d])].type = "sync-response") =>
             LET e == bcast'[d][Len(bcast'[d])] IN
               /\ e.time = video[d].time
               /\ e.playing = video[d].playing
               /\ e.speed = video[d].speed]_vars
  /\ \A l \in LinkId :
       (links[l].gst = "open" /\ links[l].hst # "none" /\ video[links[l].host].bound)
         ~> (\/ ~LinkOpen(l)
             \/ \E e \in Received(l[1]) : AnswersJoin(e, l))

\* The joiner has received the Host's sync-response with the Host's
\* position, playing flag and speed.
JoinerSynced ==
  \E l \in LinkId : \E e \in Received(l[1]) :
    /\ AnswersJoin(e, l)
    /\ e.time = 423 /\ e.playing /\ e.speed = 12
    /\ uiResult[l[1]].op = "join" /\ uiResult[l[1]].success

\* The n-th local playback event is armed in one of device d's debounce
\* timers: its listener ran with ignoreEvents clear while d had an open
\* link.
Captured(d, n) ==
  d \in Dev /\ \E kind \in Kinds : debounceTimers[d][kind].tag = <<d, 1, 0, n>>
HasReceived(d, from, n) ==
  d \in Dev /\ \E e \in Received(d) : e.tag = <<from, 1, 0, n>>

\* A Guest's captured event is eventually received by the Host, unless
\* the link closes.
GuestEventsDelivered ==
  \A l \in LinkId : \A n \in 1 .. MaxLocal :
    (Captured(l[1], n) /\ LinkOpen(l))
       ~> (HasReceived(links[l].host, l[1], n) \/ ~LinkOpen(l))
\* The Host's captured event is eventually received by every Guest whose
\* link is open, unless the link closes.
HostEventsDelivered ==
  \A l \in LinkId : \A n \in 1 .. MaxLocal :
    (LinkOpen(l) /\ Captured(links[l].host, n))
       ~> (HasReceived(l[1], links[l].host, n) \/ ~LinkOpen(l))

\* C7: a local playback event captured by a Guest's Sync Agent while the
\* Guest's link is open is eventually received by the Host, and one
\* captured by the Host's Sync Agent is eventually received by every
\* Guest whose link is open.
LocalEventsDelivered == GuestEventsDelivered /\ HostEventsDelivered

\* What getStatus reports when the Connection Manager holds no session.
NoSessionStatus ==
  [connected |-> FALSE, sessionCode |-> NoCode, isHost |-> FALSE, peerCount |-> 0]

\* C11: after a createSession that failed by the 15 s timeout or a
\* transport error, getStatus reports connected = false, no code, not
\* Host and peerCount = 0.
CreateFailureReleasesState ==
  \A d \in Dev :
    (/\ lastCall[d] = "create"
     /\ resp[d].op = "create" /\ ~resp[d].success
     /\ resp[d].error \in {ErrInitTimeout, ErrNetwork, ErrServer})
    => getStatus(d) = NoSessionStatus

\* C12: after a joinSession that failed, and before the next create or
\* join, getStatus reports connected = false, no code and peerCount = 0.
JoinFailureReportsNoSession ==
  \A d \in Dev :
    (/\ lastCall[d] = "join"
     /\ resp[d].op = "join" /\ ~resp[d].success)
    => /\ getStatus(d).connected = FALSE
       /\ getStatus(d).sessionCode = NoCode
       /\ getStatus(d).peerCount = 0

\* The Guest's end of link l was open and was closed from outside (the
\* Host closed it or the channel was lost) while the Guest's Peer is the
\* one that opened it; the Guest has handled every notification since.
GuestLinkClosed(l) ==
  /\ links[l].gst = "closed" /\ links[l].sentReq = 1
  /\ lastCall[l[1]] = "join"
  /\ peer[l[1]].id = AnonId(l)
  /\ pend[l[1]] = "none" /\ resp[l[1]] = NoResult
  /\ inbox[l[1]] = <<>>

\* C13: once a Guest's link to the Host has closed, the Guest's
\* Connection Manager reports no active session and the Guest's
\* Coordinator mirrors none.
GuestSessionEndsWithLink ==
  \A l \in LinkId :
    GuestLinkClosed(l) =>
      /\ getStatus(l[1]).connected = FALSE
      /\ getStatus(l[1]).sessionCode = NoCode
      /\ bgSessionCode[l[1]] = NoCode

\* Device d's last create or join ended by the timeout with reason msg
\* and d has not been asked for anything since.
EndedBy(d, msg) ==
  /\ lastCall[d] \in {"create", "join"}
  /\ cmOp[d] = "none"
  /\ \/ resp[d].error = msg
     \/ resp[d] = NoResult /\ pend[d] = "none" /\ uiResult[d].error = msg
\* The step is not a new request of device d.
NoRequest(d) == ~(pend[d] = "none" /\ pend'[d] # "none")

\* C14: after the 15 s initialization timeout or the 10 s connect
\* timeout has ended an attempt, no later callback changes the
\* Connection Manager's mapping, code or role, and none of the attempt's
\* open, connection or data callbacks sends a notification to the
\* Coordinator.
TimeoutClosesAttempt ==
  [][\A d \in Dev :
       ((EndedBy(d, ErrInitTimeout) \/ EndedBy(d, ErrJoinTimeout)) /\ NoRequest(d)) =>
          /\ connections'[d] = connections[d]
          /\ sessionCode'[d] = sessionCode[d]
          /\ isHost'[d] = isHost[d]
          /\ Len(inbox'[d]) > Len(inbox[d]) =>
               inbox'[d][Len(inbox'[d])].action = "connection-status"]_vars

\* C15: every createSession eventually returns a result, also where
\* every generated code is taken.
CreateReturns ==
  \A d \in Dev : (cmOp[d] = "create") ~> (cmOp[d] # "create")

\* The spellings of a code in upper and lower case letters.
RECURSIVE CaseVariants(_)
CaseVariants(code) ==
  IF code = <<>>
    THEN { <<>> }
    ELSE { <<ch>> \o rest : ch \in {Head(code), LowerOf[Head(code)]},
                            rest \in CaseVariants(Tail(code)) }

\* C16: every spelling of the Host's code in upper and lower case derives
\* the Host's identity; a join typed in lower or mixed case targets that
\* identity and a success reports the code in upper case; when the link
\* of the Host's first Guest opens the Host notifies a count of 2, and the
\* Coordinator that handles it sets peerCount to 2 and the indicator to 1.
LowercaseJoinReachesHost ==
  /\ [](\A v \in CaseVariants(HostCode) :
          sessionCodeToPeerId(v) = sessionCodeToPeerId(HostCode))
  /\ [](\A l \in LinkId :
          /\ links[l].gst # "none" => links[l].target = sessionCodeToPeerId(HostCode)
          /\ (resp[l[1]].op = "join" /\ resp[l[1]].success) => resp[l[1]].code = HostCode)
  /\ [][\A l \in LinkId :
          (links[l].hst = "pending" /\ links'[l].hst = "open"
             /\ connections[links[l].host] = {}) =>
            inbox'[links[l].host] =
              Append(inbox[links[l].host], PeerJoined(AnonId(l), 2))]_vars
  /\ [][\A d \in Dev :
          (/\ inbox[d] # <<>> /\ Head(inbox[d]).action = "peer-joined"
           /\ Head(inbox[d]).count = 2
           /\ inbox'[d] = Tail(inbox[d]))
          => peerCount'[d] = 2 /\ badge'[d] = "1"]_vars

\* A join typed in lower case succeeded and the Host's Coordinator, with
\* nothing left to handle, counts 2 peers and shows 1.
LowercaseJoined ==
  \E l \in LinkId :
    /\ LinkOpen(l)
    /\ uiResult[l[1]].op = "join" /\ uiResult[l[1]].success
    /\ uiResult[l[1]].code = HostCode
    /\ inbox[links[l].host] = <<>> /\ pend[links[l].host] = "none"
    /\ peerCount[links[l].host] = 2 /\ badge[links[l].host] = "1"

\* The step in which device d's Sync Agent, bound to an element, applies
\* the oldest remote event waiting at its Coordinator, of one of types.
Applies(d, types) ==
  /\ inbox[d] # <<>>
  /\ Head(inbox[d]).action = "peer-data"
  /\ Head(inbox[d]).data.type \in types
  /\ inbox'[d] = Tail(inbox[d])
  /\ video[d].bound
Applied(d) == Head(inbox[d]).data

\* C17: a remote play or pause with position t sets the local position to
\* t when the local position differs from t by more than 0.5 s and leaves
\* it alone otherwise (a difference of exactly 0.5 s included); in both
\* cases the element then plays, or is paused, and keeps its rate.
SeekOnlyBeyondThreshold ==
  [][\A d \in Dev :
       Applies(d, {"play", "pause"}) =>
         /\ video'[d].playing = (Applied(d).type = "play")
         /\ video'[d].speed = video[d].speed
         /\ Abs(video[d].time - Applied(d).time) > SYNC_THRESHOLD
              => video'[d].time = Applied(d).time
         /\ Abs(video[d].time - Applied(d).time) <= SYNC_THRESHOLD
              => video'[d].time = video[d].time]_vars

\* The Guest at 10.0 s has applied both copies of a play at 10.5 s: it
\* plays and is still at 10.0 s.
PlayedWithoutSeek ==
  /\ links[GuestLink].h2g = <<>> /\ inbox[2] = <<>>
  /\ BagIn(HostEvent("play", 105, FALSE, 0), rcvd[2])
  /\ video[2].time = 100 /\ video[2].playing

\* C18: a Sync Agent bound to an element that applies a sync-request
\* hands exactly one sync-response to its Coordinator, carrying the
\* element's position, playing flag and rate, and leaves the element as
\* it was.
AnswersSyncRequest ==
  [][\A d \in Dev :
       Applies(d, {"sync-request"}) =>
         /\ video'[d] = video[d]
         /\ Len(bcast'[d]) = Len(bcast[d]) + 1
         /\ SubSeq(bcast'[d], 1, Len(bcast[d])) = bcast[d]
         /\ LET r == bcast'[d][Len(bcast'[d])] IN
              /\ r.type = "sync-response"
              /\ r.time = video[d].time
              /\ r.playing = video[d].playing
              /\ r.speed = video[d].speed]_vars

\* The Host, playing at 9.5 s and rate 1.5, has answered the Guest's
\* sync-request with those values.
AnsweredWhilePlaying ==
  /\ video[1] = [bound |-> TRUE, time |-> 95, playing |-> TRUE, speed |-> 15]
  /\ Len(bcast[1]) = 1
  /\ bcast[1][1].type = "sync-response"
  /\ bcast[1][1].time = 95 /\ bcast[1][1].playing /\ bcast[1][1].speed = 15
  /\ links[GuestLink].g2h = <<>> /\ inbox[1] = <<>>

\* C19: applying a sync-response leaves the element at the response's
\* position, rate and playing flag, whatever its fields and the element's
\* state before; applied to an element already in that state it changes
\* nothing.
ResponseAppliedExactly ==
  [][\A d \in Dev :
       Applies(d, {"sync-response"}) =>
         /\ video'[d].time = Applied(d).time
         /\ video'[d].speed = Applied(d).speed
         /\ video'[d].playing = Applied(d).playing
         /\ (/\ video[d].time = Applied(d).time
             /\ video[d].speed = Applied(d).speed
             /\ video[d].playing = Applied(d).playing) => video'[d] = video[d]]_vars

\* Device g's Sync Agent has applied a buffering event of device h, whose
\* element has since fired 'playing'.
PausedForResumed(g, h) ==
  /\ g # h
  /\ \E e \in BagToSet(rcvd[g]) : e.type = "buffering" /\ e.tag[1] = h
  /\ inbox[g] = <<>>
  /\ ~stalled[h] /\ ~isBuffering[h]

\* C20: a participant that applies a buffering event is paused whatever
\* its state was, and once the element of the participant that buffered
\* has fired 'playing' the participants it paused play again.
BufferingPausesUntilResume ==
  /\ [][\A d \in Dev : Applies(d, {"buffering"}) => ~video'[d].playing]_vars
  /\ \A g \in Dev, h \in Dev : PausedForResumed(g, h) ~> video[g].playing

\* C21: a step in which an element fires a local event leaves the
\* debounce timers of every device whose ignoreEvents flag is set as they
\* were and hands nothing of that device to its Coordinator.
SuppressedEventsDiscarded ==
  [][nlocal' # nlocal =>
       \A d \in Dev : ignoreEvents[d] =>
         /\ debounceTimers'[d] = debounceTimers[d]
         /\ bcast'[d] = bcast[d]]_vars

\* The Guest's element stalled while ignoreEvents was set: onBuffering
\* returned early, so the agent is not buffering, no timer is pending and
\* nothing waits at the Coordinator.
WaitingDiscarded ==
  /\ stalled[2] /\ ~isBuffering[2] /\ ignoreEvents[2]
  /\ \A key \in TimerKeys : debounceTimers[2][key] = NoEvent
  /\ bcast[2] = <<>>

\* C22: while the 200 ms timer of an applied remote event is pending,
\* ignoreEvents is set.
FlagCoversWindow ==
  \A d \in Dev : ignTimers[d] > 0 => ignoreEvents[d]

\* The element of device d fires the local event of a debounce key in
\* this step.
Fires(d, key) ==
  /\ nlocal' = nlocal + 1
  /\ CASE key = "play" -> ~video[d].playing /\ video'[d].playing
       [] key = "pause" -> video[d].playing /\ ~video'[d].playing
       [] key = "seek" -> video'[d].time # video[d].time
       [] key = "rate" -> video'[d].speed # video[d].speed
       [] OTHER -> \/ ~stalled[d] /\ stalled'[d]
                   \/ stalled[d] /\ ~video[d].playing /\ video'[d].playing

\* Event e carries what the listener of key reads from the element.
BuiltFrom(e, d, key) ==
  /\ e.type = CASE key = "rate" -> "speed" [] key = "buffer" -> "buffering" [] OTHER -> key
  /\ IF key = "rate" THEN e.speed = video'[d].speed ELSE e.time = video'[d].time

\* The timer of a key changes only when a local event arms it or when it
\* fires and hands exactly the pending event to the Coordinator, and an
\* event of one kind leaves the pending timers of the other kinds pending.
TimersIndependent(d) ==
  /\ \A key \in TimerKeys :
       debounceTimers'[d][key] # debounceTimers[d][key] =>
         \/ /\ nlocal' = nlocal + 1
            /\ debounceTimers'[d][key] # NoEvent
            /\ bcast'[d] = bcast[d]
         \/ /\ debounceTimers[d][key] # NoEvent
            /\ debounceTimers'[d][key] = NoEvent
            /\ bcast'[d] = Append(bcast[d], debounceTimers[d][key])
            /\ \A other \in TimerKeys \ {key} :
                 debounceTimers'[d][other] = debounceTimers[d][other]
  /\ nlocal' = nlocal + 1 =>
       \A key \in TimerKeys :
         debounceTimers[d][key] # NoEvent => debounceTimers'[d][key] # NoEvent

\* C23: each local event that fires while ignoreEvents is clear replaces
\* the pending timer of its kind by its own data, so that a burst hands
\* one event, the last, to the Coordinator; timers of different kinds do
\* not cancel or delay one another.
DebouncePerKindLastWins ==
  [][\A d \in Dev :
       /\ TimersIndependent(d)
       /\ \A key \in TimerKeys :
            (Fires(d, key) /\ ~ignoreEvents[d]) =>
              BuiltFrom(debounceTimers'[d][key], d, key)]_vars

\* C23, amended: as above for play, pause, seek and rate; a 'waiting'
\* arms the buffer timer with its own data when the agent is not yet
\* buffering, and leaves the pending timer as it is when the agent is.
DebounceLastWinsButBuffering ==
  [][\A d \in Dev :
       /\ TimersIndependent(d)
       /\ \A key \in TimerKeys :
            (Fires(d, key) /\ ~ignoreEvents[d]) =>
              IF key = "buffer" /\ isBuffering[d]
                THEN debounceTimers'[d][key] = debounceTimers[d][key]
                ELSE BuiltFrom(debounceTimers'[d][key], d, key)]_vars

\* The element's second 'waiting' came while the agent was buffering: the
\* pending buffer timer still carries the position of the first.
StaleBufferingPending ==
  \E d \in Dev :
    /\ stalled[d] /\ isBuffering[d] /\ video[d].playing
    /\ debounceTimers[d]["buffer"] # NoEvent
    /\ debounceTimers[d]["buffer"].time # video[d].time
    /\ debounceTimers[d]["play"] # NoEvent

ClosedClearsSession ==
  /\ [](\A d \in Dev :
          peer[d].st = "destroyed" =>
            sessionCode[d] = NoCode /\ ~isHost[d] /\ connections[d] = {})
  /\ [][\A d \in Dev :
          (peer[d].st # "destroyed" /\ peer'[d].st = "destroyed") =>
            /\ Len(inbox'[d]) > Len(inbox[d])
            /\ inbox'[d][Len(inbox'[d])] = ConnectionStatus("closed")]_vars

\* A Host, a Guest that joins it, and a second Guest that joins once the
\* first is in the session; the first Guest's user may seek once joined.
NewcomerOps == 3
NewcomerVideo ==
  [InitVideo EXCEPT ![3] = [bound |-> TRUE, time |-> 0, playing |-> FALSE, speed |-> 10]]
InitNewcomer ==
  Start([ops |-> NewcomerOps, faults |-> 0, local |-> MaxLocal,
         creators |-> {1}, joiners |-> {2, 3}, gen |-> OneCode, track |-> FALSE, storm |-> FALSE,
         codes |-> {TypedCode}], NewcomerVideo)
NextNewcomer ==
  \/ CreateSession(1)
  \/ peer[1].st = "open" /\ JoinSession(2, TypedCode)
  \/ InSession(2) /\ uiResult[2].op = "join" /\ JoinSession(3, TypedCode)
  \/ \E d \in Dev : PeerOpen(d) \/ CoordCreateDone(d) \/ CoordJoinDone(d)
  \/ \E d \in Dev : CoordNotify(d)
  \/ \E d \in Dev : Broadcast(d) \/ IgnoreTimer(d)
  \/ \E l \in LinkId : HostConnection(l) \/ GuestConnOpen(l) \/ HostConnOpen(l)
  \/ \E l \in LinkId : HostData(l)
  \/ \E l \in LinkId : GuestData(l)
  \/ \E t \in LocalTimes : InSession(2) /\ UserAction(2, "seek", t, 10)
  \/ DebounceFire(2, "seek")
SpecNewcomer == InitNewcomer /\ [][NextNewcomer]_vars

\* The step in which device d's Coordinator handles the notification m.
Handles(d, m) ==
  inbox[d] # <<>> /\ Head(inbox[d]) = m /\ inbox'[d] = Tail(inbox[d])
MirrorKept(d) ==
  /\ bgSessionCode'[d] = bgSessionCode[d]
  /\ bgIsHost'[d] = bgIsHost[d]
  /\ peerCount'[d] = peerCount[d]

\* C26: after the Coordinator has handled a closed notification its
\* mirrored code is empty, its role is not Host, its peerCount is 0 and
\* the UI surface is disabled; handling a reconnecting notification
\* leaves code, role and peerCount as they were.
ClosedResetsCoordinator ==
  [][\A d \in Dev :
       /\ Handles(d, ConnectionStatus("closed")) =>
            /\ bgSessionCode'[d] = NoCode /\ ~bgIsHost'[d]
            /\ peerCount'[d] = 0 /\ ~popupEnabled'[d]
       /\ Handles(d, ConnectionStatus("reconnecting")) => MirrorKept(d)]_vars

PingOnlyInSession ==
  [][\A d \in Dev :
       worker'[d].ticks = worker[d].ticks + 1 =>
         /\ worker'[d].pings = worker[d].pings + 1 <=> bgSessionCode[d] # NoCode
         /\ (uiResult[d].op = "leave" /\ pend[d] = "none") =>
              worker'[d].pings = worker[d].pings]_vars

\* C29: when the Coordinator restarts while the Connection Manager holds
\* a session whose Peer is open or disconnected, the mirror after the
\* startup resynchronization has the code, the role and the peerCount of
\* getStatus.
RestartResyncsMirror ==
  [][\A d \in Dev :
       (/\ worker'[d].restarts = worker[d].restarts + 1
        /\ sessionCode[d] # NoCode
        /\ peer[d].st \in {"open", "disc"}) =>
         /\ bgSessionCode'[d] = getStatus(d).sessionCode
         /\ bgIsHost'[d] = getStatus(d).isHost
         /\ peerCount'[d] = getStatus(d).peerCount]_vars

\* Link l has an end at the Peer device d refers to now: the Peer is alive
\* and accepted the link under its identity, or requested it.
OwnLink(d, l) ==
  /\ PeerAlive(d)
  /\ \/ /\ links[l].host = d /\ links[l].hst \in {"pending", "open"}
        /\ links[l].target = peer[d].id
     \/ /\ l[1] = d /\ links[l].gst \in {"connecting", "open"}
        /\ peer[d].id = AnonId(l)
OwnKeys(d) == {ConnKey(d, l) : l \in {k \in LinkId : OwnLink(d, k)}}
\* The notifications device d's Connection Manager sends in this step.
Sent(d) ==
  IF Len(inbox'[d]) > Len(inbox[d])
    THEN {inbox'[d][i] : i \in Len(inbox[d]) + 1 .. Len(inbox'[d])}
    ELSE {}

\* C30: every key of a Connection Manager's mapping is that of an open
\* link of the Peer the device refers to now, and in a step that leaves
\* that Peer in place every key added to the mapping and every
\* peer-joined, peer-left or peer-data notification sent comes from a
\* link of that Peer: the links of a Peer destroyed by createSession,
\* joinSession or leaveSession act no more.
LinksOfCurrentIdentity ==
  /\ [](\A d \in Dev : \A id \in connections[d] :
          \E l \in LinkId : OwnLink(d, l) /\ ConnKey(d, l) = id
                              /\ (links[l].host = d => links[l].hst = "open"))
  /\ [][\A d \in Dev :
          peer'[d] = peer[d] =>
            /\ connections'[d] \ connections[d] \subseteq OwnKeys(d)
            /\ \A m \in Sent(d) :
                 m.action \in {"peer-joined", "peer-left", "peer-data"} =>
                   m.from \in OwnKeys(d)]_vars

\* The Host created a session again while a Guest's link was open: the
\* link's Host end is closed, the Guest has not noticed yet, and the
\* mapping of the new Peer is empty.
ReplacedIdentityClean ==
  \E l \in LinkId :
    /\ links[l].host = 1 /\ links[l].hst = "closed"
    /\ links[l].gst = "open" /\ ~links[l].dropped
    /\ peer[1].st = "open" /\ connections[1] = {}

\* C31: once the Coordinator has completed a leaveSession that the
\* Connection Manager carried out, and until the next request, its mirrored
\* code is empty, its peerCount is 0 and its indicator is blank, whatever
\* notifications of the teardown it handles in between.
LeftStaysDisconnected ==
  \A d \in Dev :
    (uiResult[d].op = "leave" /\ pend[d] = "none" /\ lastCall[d] = "leave") =>
      bgSessionCode[d] = NoCode /\ peerCount[d] = 0 /\ badge[d] = ""

\* C32: when a reconnect timer fires and calls reconnect(), the Peer it
\* calls it on is disconnected: it is never the Peer of a session created
\* or joined since the timer was started, which is connecting or open.
TimerReconnectsOwnIdentity ==
  [][\A d \in Dev :
       (reconnTimers'[d] = reconnTimers[d] - 1 /\ CallsReconnect(d)) =>
         peer[d].st = "disc"]_vars

\* Device d is in a session: its createSession or joinSession has been
\* answered with a success and it has asked for nothing since.
Participant(d) ==
  uiResult[d].op \in {"create", "join"} /\ uiResult[d].success /\ pend[d] = "none"

\* C33: when the page of a participant is handed a sync-request its
\* element stays as it is, and when it is handed a sync-response that
\* answers the request of another device's joinSession its element stays
\* as it is.
HandshakeAltersJoinerOnly ==
  [][\A d \in Dev :
       IF Participant(d) /\ inbox[d] # <<>> /\ inbox'[d] = Tail(inbox[d])
         THEN LET m == Head(inbox[d]) IN
                m.action = "peer-data" =>
                  /\ m.data.type = "sync-request" => video'[d] = video[d]
                  /\ (m.data.type = "sync-response" /\ m.data.tag[1] # d) =>
                       video'[d] = video[d]
         ELSE TRUE]_vars
====
